---- MODULE Spec2Model ----
(***************************************************************************)
(* A model of the metrics engine of MCP_Metrics: the DORA aggregator       *)
(* (api/app/dora.py), the insight generator (api/app/insights.py), the     *)
(* ingestion flow around them (api/app/main.py, api/app/jobs.py, with      *)
(* api/app/mcp_client.py and api/app/llm.py), the endpoints that read and  *)
(* the chat (api/app/main.py), and the business side                       *)
(* (api/app/business.py): the stored business metrics, performance         *)
(* levels, correlations and the estimated impact of an improvement.        *)
(*                                                                         *)
(* Raw values.  A pull-request record is a JSON object; a field of it is   *)
(* absent, null, or a string.  A timestamp string is modelled by what      *)
(* datetime.fromisoformat reads of it: the calendar date it starts with    *)
(* (date = 0: it starts with no date), the time of day in seconds that     *)
(* follows (time = -1: what follows is no valid time) and its offset       *)
(* suffix.  Days are numbered; a day has SecondsPerDay seconds.  A text    *)
(* (title, label, repository name) is a tuple of one-character strings.    *)
(* A Python float is a binary floating-point number: it is modelled by     *)
(* an odd significand m and an exponent e, standing for m * 2^e, and every *)
(* operation on floats rounds its exact result to the nearest float, a tie *)
(* to the one with an even significand.  The significand has FloatBits     *)
(* bits; the exponent is not limited.                                      *)
(***************************************************************************)
EXTENDS Integers, Sequences, FiniteSets, TLC

VARIABLES
    dora_metrics,    \* table dora_metrics: <<repo_id, date>> -> row
    daily_insights,  \* table daily_insights: <<repo_id, date>> -> row
    business_metrics, \* table business_metrics: <<org_id, date>> -> row
    call,            \* the last call made: its operation and its inputs
    result,          \* what that call returned, or that it raised
    ncalls           \* how many calls were made

vars == <<dora_metrics, daily_insights, business_metrics, call, result, ncalls>>

---------------------------------------------------------------------------
(* Bounds of the model *)

\* longest batch handed to compute_dora_from_prs on its own
MaxBatch == 2

\* longest list of pull requests the MCP server returns for one repository
MaxFetch == 2

\* number of requests served in one behaviour of Spec
MaxRequests == 1

\* number of ingests in one behaviour of SpecUpsert
MaxIngests == 2

\* longest batch of the runs that compare the orders of a batch
MaxOrderBatch == 3

\* the most pull requests of a batch handed to generate_insight_summary
MaxTally == 5

\* number of writes of business metrics in one behaviour of SpecBusiness
MaxWrites == 2

\* longest series of the calls of calculate_correlation
MaxSeries == 4

\* last day of the stored histories
MaxDays == 9

SecondsPerDay == 24 * 60 * 60

---------------------------------------------------------------------------
(* Floats: binary floating point, rounded to nearest, ties to even *)

\* the bits of the significand (the float of Python has 53)
FloatBits == 14

Abs(n) == IF n < 0 THEN -n ELSE n

Pow2(k) == 2 ^ k

\* the number of bits of a >= 0
RECURSIVE BitLength(_)
BitLength(a) == IF a = 0 THEN 0 ELSE 1 + BitLength(a \div 2)

\* n / d for n >= 0, d > 0, rounded to the nearest integer, a tie to the
\* even one
NearestEven(n, d) ==
    LET q == n \div d
        r == n % d
    IN  IF 2 * r < d THEN q
        ELSE IF 2 * r > d THEN q + 1
        ELSE IF q % 2 = 0 THEN q ELSE q + 1

\* a float is m * 2^e with m odd and below 2^FloatBits in size, or m = 0
Zero == [m |-> 0, e |-> 0]

\* m * 2^e for m > 0, with the factors 2 of m moved into the exponent
RECURSIVE Canon(_, _)
Canon(m, e) == IF m % 2 = 0 THEN Canon(m \div 2, e + 1) ELSE [m |-> m, e |-> e]

Neg(x) == [m |-> -x.m, e |-> x.e]

Signed(negative, x) == IF negative THEN Neg(x) ELSE x

\* floor(a * 2^k / b) and what is left, for a >= 0, b > 0, k >= 0: at once
\* where a * 2^k is small enough, else bit by bit
RECURSIVE QuoRem(_, _, _)
QuoRem(a, b, k) ==
    IF BitLength(a) + k <= 30 THEN <<(a * Pow2(k)) \div b, (a * Pow2(k)) % b>>
    ELSE LET p == QuoRem(a, b, k - 1)
         IN  <<2 * p[1] + (2 * p[2]) \div b, (2 * p[2]) % b>>

\* the integer n > 0 times 2^x, rounded to FloatBits bits
RoundBits(n, x) ==
    LET d == BitLength(n) - FloatBits
    IN  IF d <= 0 THEN Canon(n, x) ELSE Canon(NearestEven(n, Pow2(d)), x + d)

\* (a / b) * 2^x for integers a > 0 and b > 0, correctly rounded: the
\* quotient to FloatBits + 2 bits or more, a last bit that tells whether
\* anything was left, and then the rounding
RoundQuo(a, b, x) ==
    LET k == FloatBits + 2 + BitLength(b) - BitLength(a)
        qr == IF k >= 0 THEN QuoRem(a, b, k)
              ELSE <<a \div (b * Pow2(-k)), a % (b * Pow2(-k))>>
    IN  RoundBits(2 * qr[1] + (IF qr[2] = 0 THEN 0 ELSE 1), x - k - 1)

\* the float a / b for integers a and b > 0: the quotient correctly rounded
Frac(a, b) == IF a = 0 THEN Zero ELSE Signed(a < 0, RoundQuo(Abs(a), b, 0))

\* the exponent above the leading bit of x # 0
Top(x) == x.e + BitLength(Abs(x.m))

\* the bits kept below the leading bit of a sum before it is rounded
GuardBits == FloatBits + 4

\* floor(x / 2^q) for a float x # 0 whose leading bit is at most GuardBits
\* above q
PartAt(x, q) ==
    IF x.e >= q THEN x.m * Pow2(x.e - q)
    ELSE IF q - x.e > FloatBits THEN (IF x.m < 0 THEN -1 ELSE 0)
    ELSE x.m \div Pow2(q - x.e)

\* x + y for two floats: the sum correctly rounded.  The sum is formed in
\* units of 2^q; of an operand that reaches below 2^q the bits below are
\* dropped and remembered as a last bit
FloatAdd(x, y) ==
    IF x.m = 0 THEN y
    ELSE IF y.m = 0 THEN x
    ELSE LET top == IF Top(x) >= Top(y) THEN Top(x) ELSE Top(y)
             low == IF x.e <= y.e THEN x.e ELSE y.e
             q == IF low >= top - GuardBits THEN low ELSE top - GuardBits
             n == 2 * (PartAt(x, q) + PartAt(y, q))
                    + (IF x.e < q \/ y.e < q THEN 1 ELSE 0)
         IN  IF n = 0 THEN Zero ELSE Signed(n < 0, RoundBits(Abs(n), q - 1))

\* float('inf'), above every float: a record that no m * 2^e has
Inf == [m |-> 0, e |-> 1]

\* x <= y for two floats, by the sign of the difference
FracLeq(x, y) ==
    IF y = Inf THEN TRUE
    ELSE IF x = Inf THEN FALSE
    ELSE FloatAdd(x, Neg(y)).m <= 0

\* x / n for a float x and an integer n > 0
FloatDivInt(x, n) ==
    IF x.m = 0 THEN Zero ELSE Signed(x.m < 0, RoundQuo(Abs(x.m), n, x.e))

\* x - y and x * y for two floats, and x / y for y # 0, correctly rounded
FloatSub(x, y) == FloatAdd(x, Neg(y))

FloatMul(x, y) ==
    IF x.m = 0 \/ y.m = 0 THEN Zero
    ELSE Signed((x.m < 0) # (y.m < 0), RoundBits(Abs(x.m) * Abs(y.m), x.e + y.e))

FloatDiv(x, y) ==
    IF x.m = 0 THEN Zero
    ELSE Signed((x.m < 0) # (y.m < 0), RoundQuo(Abs(x.m), Abs(y.m), x.e - y.e))

\* floor(sqrt(n)) for an integer n >= 0
RECURSIVE Isqrt(_)
Isqrt(n) ==
    IF n < 2 THEN n
    ELSE LET s == 2 * Isqrt(n \div 4)
         IN  IF (s + 1) * (s + 1) <= n THEN s + 1 ELSE s

\* k more bits of a root, digit by digit: <<root, what is left>>
RECURSIVE RootBits(_, _, _)
RootBits(root, rest, k) ==
    IF k = 0 THEN <<root, rest>>
    ELSE IF 4 * rest >= 4 * root + 1
         THEN RootBits(2 * root + 1, 4 * rest - (4 * root + 1), k - 1)
         ELSE RootBits(2 * root, 4 * rest, k - 1)

\* math.sqrt(x) for a float x >= 0, correctly rounded
FloatSqrt(x) ==
    IF x.m = 0 THEN Zero
    ELSE LET odd == x.e % 2 = 1
             n == IF odd THEN 2 * x.m ELSE x.m
             h == (IF odd THEN x.e - 1 ELSE x.e) \div 2
             r0 == Isqrt(n)
             k == FloatBits + 2 - BitLength(r0)
             rb == RootBits(r0, n - r0 * r0, k)
         IN  RoundBits(2 * rb[1] + (IF rb[2] = 0 THEN 0 ELSE 1), h - k - 1)

\* sum(s) for a list of floats: 0 + s[1] + s[2] + ..., added in the order
\* of the list
RECURSIVE SumFrom(_, _)
SumFrom(acc, s) == IF s = <<>> THEN acc ELSE SumFrom(FloatAdd(acc, Head(s)), Tail(s))

SumSeq(s) == SumFrom(Zero, s)

---------------------------------------------------------------------------
(* Raw JSON values *)

Absent == [k |-> "absent"]
Null == [k |-> "null"]
EmptyStr == [k |-> "empty"]
Text(date, time, tz) == [k |-> "text", date |-> date, time |-> time, tz |-> tz]

\* dict.get(key): None when the key is absent
Get(v) == IF v.k = "absent" THEN Null ELSE v

\* dict.get(key, ""): the default only when the key is absent
GetOrEmpty(v) == IF v.k = "absent" THEN EmptyStr ELSE v

\* Python truthiness of None and of a str
Truthy(v) == v.k = "text"

---------------------------------------------------------------------------
(* dora.py: _parse_datetime *)

NoneValue == [ok |-> FALSE]

\* value.replace("Z", "+00:00") on the offset suffix
ReplaceZ(tz) == IF tz = "Z" THEN "+00:00" ELSE tz

\* the offset suffixes datetime.fromisoformat reads, in minutes east of UTC
OffsetMinutes(tz) ==
    CASE tz = "+00:00" -> 0
      [] tz = "+02:00" -> 120
      [] tz = "-02:00" -> -120

\* datetime.fromisoformat: a datetime, naive when the string has no offset;
\* ValueError (here NoneValue) for anything else
FromIsoFormat(date, time, tz) ==
    IF date = 0 \/ time < 0 \/ tz \notin {"", "+00:00", "+02:00", "-02:00"}
    THEN NoneValue
    ELSE [ok |-> TRUE, date |-> date, time |-> time,
          aware |-> tz # "",
          off |-> IF tz = "" THEN 0 ELSE OffsetMinutes(tz)]

\* _parse_datetime without the replacement of the trailing Z
ParseNoReplace(value) ==
    IF ~Truthy(value) THEN NoneValue
    ELSE FromIsoFormat(value.date, value.time, value.tz)

_parse_datetime(value) ==
    IF ~Truthy(value) THEN NoneValue
    ELSE FromIsoFormat(value.date, value.time, ReplaceZ(value.tz))

\* datetime.date(): the calendar date as written, in the value's own offset
DateOf(d) == d.date

\* seconds since day 0, 00:00 UTC (for a naive value: on its own clock)
Instant(d) == d.date * SecondsPerDay + d.time - 60 * d.off

\* merged_at - created_at raises TypeError for a naive and an aware operand
CanSubtract(a, b) == a.aware = b.aware

\* (a - b).total_seconds() / 60.0
MinutesBetween(a, b) == Frac(Instant(a) - Instant(b), 60)

---------------------------------------------------------------------------
(* Texts: tuples of characters *)

UpperCase == <<"A", "B", "C", "D", "E", "F", "G", "H", "I", "J", "K", "L", "M",
               "N", "O", "P", "Q", "R", "S", "T", "U", "V", "W", "X", "Y", "Z">>
LowerCase == <<"a", "b", "c", "d", "e", "f", "g", "h", "i", "j", "k", "l", "m",
               "n", "o", "p", "q", "r", "s", "t", "u", "v", "w", "x", "y", "z">>

\* the lower-case letter of each upper-case letter
LowerOf ==
    [c \in {UpperCase[i] : i \in DOMAIN UpperCase} |->
        LowerCase[CHOOSE i \in DOMAIN UpperCase : UpperCase[i] = c]]

LowerChar(c) == IF c \in DOMAIN LowerOf THEN LowerOf[c] ELSE c

\* str.lower()
Lower(s) == [i \in DOMAIN s |-> LowerChar(s[i])]

\* needle in hay, for two str
Contains(hay, needle) ==
    \E i \in 1..(Len(hay) - Len(needle) + 1) :
        SubSeq(hay, i, i + Len(needle) - 1) = needle

\* x in xs, for a list
InList(x, xs) == \E i \in DOMAIN xs : xs[i] = x

kw_revert == <<"r", "e", "v", "e", "r", "t">>
kw_rollback == <<"r", "o", "l", "l", "b", "a", "c", "k">>
kw_bug == <<"b", "u", "g">>
kw_incident == <<"i", "n", "c", "i", "d", "e", "n", "t">>

---------------------------------------------------------------------------
(* dora.py: compute_dora_from_prs *)

TitleKeywords == <<kw_revert, kw_rollback>>

\* the label keywords of the docstring, which leaves out "rollback"
DocstringLabelKeywords == <<kw_bug, kw_incident, kw_revert>>

LabelKeywords == <<kw_bug, kw_incident, kw_revert, kw_rollback>>

\* (pr.get("title") or "").lower(); an absent or null title is <<>>
TitleOf(pr) == Lower(pr.title)

\* [l.get("name", "").lower() for l in pr.get("labels", [])]
LabelsOf(pr) == [i \in DOMAIN pr.labels |-> Lower(pr.labels[i])]

is_failure(pr) ==
    \/ \E i \in DOMAIN TitleKeywords : Contains(TitleOf(pr), TitleKeywords[i])
    \/ \E i \in DOMAIN LabelKeywords : InList(LabelKeywords[i], LabelsOf(pr))

EmptyBucket ==
    [deployment_frequency |-> 0, lead_times |-> <<>>,
     failure_count |-> 0, failure_leads |-> <<>>]

\* AddToBucket, counting a failure merge as a failure only and not as a
\* deployment
AddToBucketSkipFailed(bucket, lead_minutes, failed) ==
    [deployment_frequency |-> bucket.deployment_frequency + (IF failed THEN 0 ELSE 1),
     lead_times |-> Append(bucket.lead_times, lead_minutes),
     failure_count |-> bucket.failure_count + (IF failed THEN 1 ELSE 0),
     failure_leads |-> IF failed THEN Append(bucket.failure_leads, lead_minutes)
                       ELSE bucket.failure_leads]

\* one pass of the loop body for a record whose timestamps parsed
AddToBucket(bucket, lead_minutes, failed) ==
    [deployment_frequency |-> bucket.deployment_frequency + 1,
     lead_times |-> Append(bucket.lead_times, lead_minutes),
     failure_count |-> bucket.failure_count + (IF failed THEN 1 ELSE 0),
     failure_leads |-> IF failed THEN Append(bucket.failure_leads, lead_minutes)
                       ELSE bucket.failure_leads]

\* per_day.setdefault(day, {...}) followed by the updates of the bucket
SetDefaultAndAdd(per_day, day, lead_minutes, failed) ==
    LET bucket == IF day \in DOMAIN per_day THEN per_day[day] ELSE EmptyBucket
    IN  [d \in DOMAIN per_day \cup {day} |->
            IF d = day THEN AddToBucket(bucket, lead_minutes, failed)
            ELSE per_day[d]]

\* the first loop, from record i on: [raised, per_day]
RECURSIVE Accumulate(_, _, _)
Accumulate(batch, i, per_day) ==
    IF i > Len(batch) THEN [raised |-> FALSE, per_day |-> per_day]
    ELSE
        LET pr == batch[i]
            merged_at == _parse_datetime(Get(pr.merged_at))
            created_at == _parse_datetime(Get(pr.created_at))
        IN  IF ~merged_at.ok \/ ~created_at.ok
            THEN Accumulate(batch, i + 1, per_day)
            ELSE IF ~CanSubtract(merged_at, created_at)
            THEN [raised |-> TRUE, per_day |-> per_day]
            ELSE Accumulate(batch, i + 1,
                    SetDefaultAndAdd(per_day, DateOf(merged_at),
                                     MinutesBetween(merged_at, created_at),
                                     is_failure(pr)))

\* Finalize, with mttr_minutes averaged over the lead times of all the
\* day's events
FinalizeMttrAllLeads(vals) ==
    LET leads == vals.lead_times
        failure_count == vals.failure_count
        deployment_freq == IF vals.deployment_frequency # 0
                           THEN vals.deployment_frequency ELSE 1
    IN  [deployment_frequency |-> Frac(vals.deployment_frequency, 1),
         avg_lead_time_minutes |-> IF leads # <<>> THEN FloatDivInt(SumSeq(leads), Len(leads))
                                   ELSE Frac(0, 1),
         change_failure_rate |-> Frac(failure_count, deployment_freq),
         mttr_minutes |-> IF failure_count # 0
                          THEN FloatDivInt(SumSeq(leads), Len(leads))
                          ELSE Frac(0, 1)]

\* the second loop's body: one day's DailyMetrics
Finalize(vals) ==
    LET leads == vals.lead_times
        avg_lead == IF leads # <<>> THEN FloatDivInt(SumSeq(leads), Len(leads))
                    ELSE Frac(0, 1)
        failure_count == vals.failure_count
        deployment_freq == IF vals.deployment_frequency # 0
                           THEN vals.deployment_frequency ELSE 1
        cfr == Frac(failure_count, deployment_freq)
        mttr == IF failure_count # 0
                THEN FloatDivInt(SumSeq(vals.failure_leads), failure_count)
                ELSE Frac(0, 1)
    IN  [deployment_frequency |-> Frac(vals.deployment_frequency, 1),
         avg_lead_time_minutes |-> avg_lead,
         change_failure_rate |-> cfr,
         mttr_minutes |-> mttr]

\* [raised, value]: value maps each day of the batch to its DailyMetrics
compute_dora_from_prs(batch) ==
    LET acc == Accumulate(batch, 1, <<>>)
    IN  IF acc.raised THEN [raised |-> TRUE, value |-> <<>>]
        ELSE [raised |-> FALSE,
              value |-> [d \in DOMAIN acc.per_day |-> Finalize(acc.per_day[d])]]

---------------------------------------------------------------------------
(* insights.py: generate_insight_summary *)

TopContributors == 5

\* int(x) for a float x >= 0
IntOf(x) ==
    IF x.e >= 0 THEN x.m * Pow2(x.e)
    ELSE IF -x.e > FloatBits THEN 0
    ELSE x.m \div Pow2(-x.e)

\* n / d for n >= 0, rounded to the nearest integer, a tie to the even one
RoundHalfEven(n, d) ==
    LET q == n \div d
        r == n % d
    IN  IF 2 * r < d THEN q
        ELSE IF 2 * r > d THEN q + 1
        ELSE IF q % 2 = 0 THEN q ELSE q + 1

\* f"{lead:.1f}": the value in tenths.  The rounding is that of the exact
\* value, which is the float's own for the halves and quarters met here.
FormatTenths(x) ==
    IF x.e >= 0 THEN 10 * x.m * Pow2(x.e)
    ELSE IF x.m >= 0 THEN RoundHalfEven(10 * x.m, Pow2(-x.e))
    ELSE -RoundHalfEven(10 * (-x.m), Pow2(-x.e))

\* value.startswith(str(target_day)) for a str value
StartsWithDay(v, target_day) == v.k = "text" /\ v.date = target_day

\* the list comprehension of authors, from record i on: [raised, authors].
\* pr.get("merged_at", "") is None for a null merged_at, and None.startswith
\* raises AttributeError.
RECURSIVE AuthorsFrom(_, _, _, _)
AuthorsFrom(batch, i, target_day, authors) ==
    IF i > Len(batch) THEN [raised |-> FALSE, authors |-> authors]
    ELSE
        LET merged_at == GetOrEmpty(batch[i].merged_at)
        IN  IF merged_at.k = "null" THEN [raised |-> TRUE, authors |-> authors]
            ELSE IF StartsWithDay(merged_at, target_day)
            THEN AuthorsFrom(batch, i + 1, target_day, Append(authors, batch[i].login))
            ELSE AuthorsFrom(batch, i + 1, target_day, authors)

\* [a for a in authors if a]: a record without user or login has login ""
NamedAuthors(authors) == SelectSeq(authors, LAMBDA a : a # "")

\* Counter(...): the number of occurrences of each name
CountOf(authors, name) == Cardinality({i \in DOMAIN authors : authors[i] = name})

\* the keys of the Counter, in the order of their first occurrence
RECURSIVE FirstSeen(_, _)
FirstSeen(authors, seen) ==
    IF authors = <<>> THEN seen
    ELSE IF InList(Head(authors), seen) THEN FirstSeen(Tail(authors), seen)
    ELSE FirstSeen(Tail(authors), Append(seen, Head(authors)))

\* sorted(items, key=count, reverse=True): stable, so equal counts keep the
\* order of first occurrence
RECURSIVE SortByCount(_, _)
SortByCount(names, authors) ==
    IF names = <<>> THEN <<>>
    ELSE
        LET best == CHOOSE i \in DOMAIN names :
                        /\ \A j \in DOMAIN names :
                             CountOf(authors, names[j]) <= CountOf(authors, names[i])
                        /\ \A j \in 1..(i - 1) :
                             CountOf(authors, names[j]) < CountOf(authors, names[i])
            rest == [k \in 1..(Len(names) - 1) |->
                        IF k < best THEN names[k] ELSE names[k + 1]]
        IN  <<names[best]>> \o SortByCount(rest, authors)

\* author_counts.most_common(n) as a list of {author, pr_count}
most_common(authors, n) ==
    LET sorted == SortByCount(FirstSeen(authors, <<>>), authors)
        top == SubSeq(sorted, 1, IF Len(sorted) < n THEN Len(sorted) ELSE n)
    IN  [i \in DOMAIN top |-> [author |-> top[i], pr_count |-> CountOf(authors, top[i])]]

\* top_contrib[0]["pr_count"] / max(1, sum(author_counts.values())) >= 0.8
BusFactorTest(top_contrib, total) ==
    /\ top_contrib # <<>>
    /\ FracLeq(Frac(8, 10), Frac(top_contrib[1].pr_count, IF total < 1 THEN 1 ELSE total))

\* the risk flags, in the order they are appended
RiskFlags(dep_freq, top_contrib, total) ==
    (IF dep_freq = 0 THEN <<"no_deployments">> ELSE <<>>)
    \o (IF BusFactorTest(top_contrib, total) THEN <<"bus_factor">> ELSE <<>>)

\* ', '.join([c['author'] for c in top_contrib]) or 'n/a'
ContributorNames(top_contrib) ==
    IF top_contrib = <<>> THEN <<"n/a">>
    ELSE [i \in DOMAIN top_contrib |-> top_contrib[i].author]

\* the summary sentence, by the values it is formatted from
SummaryText(repo, target_day, dep_freq, lead, top_contrib) ==
    [by |-> "template", day |-> target_day, repo |-> repo,
     merged |-> dep_freq, lead_tenths |-> FormatTenths(lead),
     contributors |-> ContributorNames(top_contrib)]

\* the tuple returned for the named authors of the target day
InsightFor(repo, target_day, dep_freq, lead, top_contrib, total) ==
    [raised |-> FALSE,
     summary |-> SummaryText(repo, target_day, dep_freq, lead, top_contrib),
     risk_flags |-> RiskFlags(dep_freq, top_contrib, total),
     top_contrib |-> top_contrib]

\* the tally of the authors found, unless finding them raised
InsightOf(repo, target_day, dep_freq, lead, found) ==
    IF found.raised THEN [raised |-> TRUE]
    ELSE InsightFor(repo, target_day, dep_freq, lead,
                    most_common(NamedAuthors(found.authors), TopContributors),
                    Len(NamedAuthors(found.authors)))

\* int(day_metrics.get("deployment_frequency", 0))
DepFreqOf(metrics_per_day, target_day) ==
    IF target_day \in DOMAIN metrics_per_day
    THEN IntOf(metrics_per_day[target_day].deployment_frequency)
    ELSE 0

\* day_metrics.get("avg_lead_time_minutes", 0.0)
LeadOn(metrics_per_day, target_day) ==
    IF target_day \in DOMAIN metrics_per_day
    THEN metrics_per_day[target_day].avg_lead_time_minutes
    ELSE Frac(0, 1)

\* [raised, summary, risk_flags, top_contrib]
generate_insight_summary(repo, metrics_per_day, batch, target_day) ==
    InsightOf(repo, target_day,
              DepFreqOf(metrics_per_day, target_day),
              LeadOn(metrics_per_day, target_day),
              AuthorsFrom(batch, 1, target_day, <<>>))

---------------------------------------------------------------------------
(* dora.py: upsert_dora_metrics; insights.py: upsert_daily_insight *)

\* INSERT ... ON CONFLICT (repo_id, date) DO NOTHING
InsertIfAbsent(table, key, row) ==
    [k \in DOMAIN table \cup {key} |-> IF k \in DOMAIN table THEN table[k] ELSE row]

\* INSERT ... ON CONFLICT (repo_id, date) DO UPDATE SET <the four columns>
UpsertRow(table, key, row) ==
    [k \in DOMAIN table \cup {key} |-> IF k = key THEN row ELSE table[k]]

\* the loop over metrics_per_day.items(), for the days of S
RECURSIVE UpsertDays(_, _, _, _)
UpsertDays(table, repo_id, metrics_per_day, S) ==
    IF S = {} THEN table
    ELSE LET day == CHOOSE d \in S : TRUE
             vals == metrics_per_day[day]
             row == [deployment_frequency |-> vals.deployment_frequency,
                     avg_lead_time_minutes |-> vals.avg_lead_time_minutes,
                     change_failure_rate |-> vals.change_failure_rate,
                     mttr_minutes |-> vals.mttr_minutes]
         IN  UpsertDays(UpsertRow(table, <<repo_id, day>>, row),
                        repo_id, metrics_per_day, S \ {day})

\* the table after upsert_dora_metrics; nothing is written for no metrics
upsert_dora_metrics(table, repo_id, metrics_per_day) ==
    IF metrics_per_day = <<>> THEN table
    ELSE UpsertDays(table, repo_id, metrics_per_day, DOMAIN metrics_per_day)

\* the table after upsert_daily_insight
upsert_daily_insight(table, repo_id, date, summary_text, risk_flags, top_contributors) ==
    UpsertRow(table, <<repo_id, date>>,
              [summary_text |-> summary_text, risk_flags |-> risk_flags,
               top_contributors |-> top_contributors])

---------------------------------------------------------------------------
(* mcp_client.py: what list_pull_requests returns; llm.py: enhance_insight *)

\* the JSON the MCP server answers with: a list of records, an object with
\* or without "items"; or the request fails
McpList(items) == [shape |-> "list", items |-> items]
McpObject(items) == [shape |-> "object", has_items |-> TRUE, items |-> items]
McpObjectNoItems == [shape |-> "object", has_items |-> FALSE]
McpFailure == [shape |-> "failure"]

\* MCPClient._post_json: the parsed JSON, or [] on any exception
_post_json(answer) == IF answer.shape = "failure" THEN McpList(<<>>) ELSE answer

\* raw_prs if isinstance(raw_prs, list) else raw_prs.get("items", [])
PrsOf(raw_prs) ==
    IF raw_prs.shape = "list" THEN raw_prs.items
    ELSE IF raw_prs.has_items THEN raw_prs.items
    ELSE <<>>

\* what enhance_insight returns: None (no client, or the call failed), a
\* rewritten text, or an empty text
LlmNone == [by |-> "none"]
LlmText == [by |-> "llm"]
LlmEmpty == [by |-> "empty"]

\* the environment of llm.py: whether OPENAI_API_KEY is set, whether the
\* openai package could be imported, and what a chat completion does: it
\* raises, or answers with a text, an empty text or no content
LlmEnv(api_key, openai, completion) ==
    [api_key |-> api_key, openai |-> openai, completion |-> completion]

\* _client(): None without the key or without the package
_client(env) == IF ~env.api_key \/ ~env.openai THEN NoneValue ELSE [model |-> "gpt-4o-mini"]

\* what the try block around client.chat.completions.create returns
Completion(env) ==
    IF env.completion = "text" THEN LlmText
    ELSE IF env.completion = "empty" THEN LlmEmpty
    ELSE LlmNone

\* enhance_insight(...): None without a client and when the completion raises
enhance_insight(env) == IF _client(env) = NoneValue THEN LlmNone ELSE Completion(env)

\* summarize_chat(...): None without a client and when the completion raises
summarize_chat(env) == IF _client(env) = NoneValue THEN LlmNone ELSE Completion(env)

EnhancedTextAlways(insight_text, llm_insight) == llm_insight

\* if llm_insight: insight_text = llm_insight
EnhancedText(insight_text, llm_insight) ==
    IF llm_insight.by = "llm" THEN llm_insight ELSE insight_text

---------------------------------------------------------------------------
(* main.py: ingest; jobs.py: run_daily_ingestion *)

Slash == "/"

\* "/" in repo
HasSlash(repo) == \E i \in DOMAIN repo : repo[i] = Slash

\* max(metrics_per_day.keys())
LatestDay(metrics_per_day) ==
    CHOOSE d \in DOMAIN metrics_per_day : \A e \in DOMAIN metrics_per_day : e <= d

\* what the loop is left with: the tables, the results so far, and whether
\* an exception ended it
LoopState(raised, dora, insights, results) ==
    [raised |-> raised, dora |-> dora, insights |-> insights, results |-> results]

\* results.append({"repo": repo, "days": len(metrics_per_day)})
ResultEntry(repo, metrics_per_day) ==
    [repo |-> repo, days |-> Cardinality(DOMAIN metrics_per_day)]

\* the insight of the latest day, enhanced and stored; an exception of
\* generate_insight_summary leaves daily_insights as it was
StoreInsight(insights, repo, latest_day, insight, llm) ==
    IF insight.raised THEN [raised |-> TRUE, insights |-> insights]
    ELSE [raised |-> FALSE,
          insights |-> upsert_daily_insight(insights, repo, latest_day,
                                            EnhancedText(insight.summary, llm),
                                            insight.risk_flags, insight.top_contrib)]

\* if metrics_per_day: ... upsert_daily_insight(...)
InsightStep(insights, repo, metrics_per_day, batch, llm) ==
    IF metrics_per_day = <<>> THEN [raised |-> FALSE, insights |-> insights]
    ELSE StoreInsight(insights, repo, LatestDay(metrics_per_day),
                      generate_insight_summary(repo, metrics_per_day, batch,
                                               LatestDay(metrics_per_day)),
                      llm)

\* one pass of the loop body for repo, whose pull requests are batch:
\* [raised, dora, insights, entry].  The rows of dora_metrics are written
\* before the insight is generated.
IngestRepo(repo, batch, computed, llm, dora, insights) ==
    IF computed.raised
    THEN [raised |-> TRUE, dora |-> dora, insights |-> insights]
    ELSE [raised |-> InsightStep(insights, repo, computed.value, batch, llm).raised,
          dora |-> upsert_dora_metrics(dora, repo, computed.value),
          insights |-> InsightStep(insights, repo, computed.value, batch, llm).insights,
          entry |-> ResultEntry(repo, computed.value)]

\* the loop over the repositories, from position i on.  An exception leaves
\* the loop with what was written before it: no transaction spans the loop.
RECURSIVE IngestLoop(_, _, _, _, _)
RECURSIVE AfterRepo(_, _, _, _, _, _)
AfterRepoStops(repositories, i, fetched, llm, results, done) ==
    IF done.raised THEN LoopState(TRUE, done.dora, done.insights, results)
    ELSE IF done.entry.days = 0
    THEN LoopState(FALSE, done.dora, done.insights, Append(results, done.entry))
    ELSE IngestLoop(repositories, i + 1, fetched, llm,
                    LoopState(FALSE, done.dora, done.insights,
                              Append(results, done.entry)))

AfterRepo(repositories, i, fetched, llm, results, done) ==
    IF done.raised THEN LoopState(TRUE, done.dora, done.insights, results)
    ELSE IngestLoop(repositories, i + 1, fetched, llm,
                    LoopState(FALSE, done.dora, done.insights,
                              Append(results, done.entry)))

IngestLoop(repositories, i, fetched, llm, st) ==
    IF i > Len(repositories) THEN st
    ELSE AfterRepo(repositories, i, fetched, llm, st.results,
                   IngestRepo(repositories[i],
                              PrsOf(_post_json(fetched[repositories[i]])),
                              compute_dora_from_prs(
                                  PrsOf(_post_json(fetched[repositories[i]]))),
                              llm, st.dora, st.insights))

---------------------------------------------------------------------------
(* Inputs *)

\* all sequences over S of length at most n
BoundedSeq(S, n) == UNION {[1..k -> S] : k \in 0..n}

\* 01:00 and 23:00, in seconds after midnight
EarlyTime == 1 * 60 * 60
LateTime == 23 * 60 * 60

title_feature == <<"F", "e", "a", "t", "u", "r", "e", " ", "A">>
title_revert == <<"R", "e", "v", "e", "r", "t", " ", "b", "a", "d", " ", "c", "h", "a", "n", "g", "e">>
title_bug_fix == <<"b", "u", "g", " ", "f", "i", "x">>

\* what merged_at may hold: absent, null, "", a non-ISO string, and for
\* the instant day 1 23:00 UTC the two spellings "...T23:00:00Z" (day 1)
\* and "...T01:00:00+02:00" (day 2), and day 2 01:00 with Z and naive
MergedAts ==
    {Absent, Null, EmptyStr, Text(0, -1, ""),
     Text(1, LateTime, "Z"), Text(2, EarlyTime, "+02:00"),
     Text(2, EarlyTime, "Z"), Text(2, EarlyTime, "")}

\* what created_at may hold: absent, and ISO strings before and after the
\* merge instants, with Z and naive
CreatedAts ==
    {Absent, Text(1, EarlyTime, "Z"), Text(1, EarlyTime, ""),
     Text(2, LateTime, "Z")}

PullRequest(created_at, merged_at, title, labels, login) ==
    [created_at |-> created_at, merged_at |-> merged_at, title |-> title,
     labels |-> labels, login |-> login]

\* the records of the aggregation runs: every pair of timestamps, under a
\* plain title and a failure title
DoraPRs ==
    {PullRequest(c, m, t, <<>>, "alice") :
        c \in CreatedAts, m \in MergedAts, t \in {title_feature, title_revert}}

\* titles: none, plain, a keyword at the start, in capitals, inside a word,
\* a label keyword in the title, and a keyword broken by a space
Titles ==
    {<<>>, title_feature, title_revert, <<"R", "O", "L", "L", "B", "A", "C", "K", " ", "d", "b">>,
     <<"u", "n", "r", "e", "v", "e", "r", "t", "e", "d">>, title_bug_fix, <<"r", "e", "v", "e", "r", " ", "t">>}

\* label lists: none, each keyword in some case, a label that only starts
\* with a keyword, two labels, and a label with an empty name
LabelLists ==
    {<<>>, <<<<"b", "u", "g">>>>, <<<<"B", "u", "g">>>>, <<<<"I", "N", "C", "I", "D", "E", "N", "T">>>>,
     <<<<"r", "e", "v", "e", "r", "t">>>>, <<<<"R", "o", "l", "l", "b", "a", "c", "k">>>>, <<<<"b", "u", "g", "f", "i", "x">>>>,
     <<<<"e", "n", "h", "a", "n", "c", "e", "m", "e", "n", "t">>, <<"r", "o", "l", "l", "b", "a", "c", "k">>>>, <<<<>>>>}

\* the records of the classification runs, merged on day 1: every title
\* without labels, and every label list under a plain title, a failure
\* title and a title that holds a label keyword
ClassifyPRs ==
    {PullRequest(Text(1, EarlyTime, "Z"), Text(1, LateTime, "Z"), t, <<>>, "alice") :
        t \in Titles}
    \cup {PullRequest(Text(1, EarlyTime, "Z"), Text(1, LateTime, "Z"), t, l, "alice") :
            t \in {title_feature, title_revert, title_bug_fix}, l \in LabelLists}

\* hh:mm:ss in seconds after midnight
Clock(h, m, sec) == (h * 60 + m) * 60 + sec

\* the records of the runs that compare the orders of a batch: three merged
\* on day 1 with lead times of whole seconds, one of them a failure, one
\* merged on day 2, and one closed without merging
OrderPRs ==
    {PullRequest(Text(1, Clock(0, 0, 0), "Z"), Text(1, Clock(1, 9, 32), "Z"), title_feature, <<>>, "alice"),
     PullRequest(Text(1, Clock(0, 0, 0), "Z"), Text(1, Clock(7, 12, 11), "Z"), title_revert, <<>>, "alice"),
     PullRequest(Text(1, Clock(0, 0, 0), "Z"), Text(1, Clock(14, 52, 9), "Z"), title_feature, <<>>, "alice"),
     PullRequest(Text(1, EarlyTime, "Z"), Text(2, EarlyTime, "Z"), title_revert, <<>>, "alice"),
     PullRequest(Text(1, EarlyTime, "Z"), Null, title_feature, <<>>, "alice")}

\* repository names: two of the form owner/repo and one without a slash
repo_a == <<"o", "/", "r">>
repo_b == <<"a", "/", "b">>
repo_bad == <<"b", "a", "d">>
RepoNames == {repo_a, repo_b, repo_bad}

\* the lists of one repository
OneRepo == {<<r>> : r \in RepoNames}

\* the lists of the requests: one repository, one repository twice, and a
\* well-formed name before and after a malformed one
RepoLists == OneRepo \cup {<<repo_a, repo_a>>, <<repo_a, repo_bad>>, <<repo_bad, repo_a>>}

\* a pull request merged on day 1, one closed without merging (merged_at
\* null), and one merged on day 1 whose created_at is missing
pr_merged == PullRequest(Text(1, EarlyTime, "Z"), Text(1, LateTime, "Z"), title_feature, <<>>, "alice")
pr_unmerged == PullRequest(Text(1, EarlyTime, "Z"), Null, title_feature, <<>>, "bob")
pr_no_created == PullRequest(Absent, Text(1, LateTime, "Z"), title_feature, <<>>, "bob")

\* a pull request merged on day 2
pr_merged_later == PullRequest(Text(1, EarlyTime, "Z"), Text(2, EarlyTime, "Z"), title_revert, <<>>, "bob")

\* the records of the ingestion runs
FlowPRs == {pr_merged, pr_unmerged, pr_no_created}

\* the records of the repeated ingests
UpsertPRs == {pr_merged, pr_merged_later}

\* the answers of the MCP server for a repository, over the records of U:
\* a failed request, an object without "items", an object with one record
\* under "items", and the lists of up to MaxFetch records
McpAnswers(U) ==
    {McpFailure, McpObjectNoItems}
    \cup {McpObject(<<pr>>) : pr \in U}
    \cup {McpList(b) : b \in BoundedSeq(U, MaxFetch)}

Range(f) == {f[i] : i \in DOMAIN f}

---------------------------------------------------------------------------
(* business.py: the performance levels *)

\* metrics.get(key, default)
DictGet(d, key, default) == IF key \in DOMAIN d THEN d[key] ELSE default

level_order == <<"Low", "Medium", "High", "Elite">>

\* level_order.index(l)
LevelIndex(l) == CHOOSE i \in DOMAIN level_order : level_order[i] = l

\* the level of a value for which more is better
LevelAtLeast(v, elite, high, medium) ==
    IF FracLeq(elite, v) THEN "Elite"
    ELSE IF FracLeq(high, v) THEN "High"
    ELSE IF FracLeq(medium, v) THEN "Medium"
    ELSE "Low"

\* the levels with the bounds left out of the better tier
LevelBelow(v, elite, high, medium) ==
    IF ~FracLeq(elite, v) THEN "Elite"
    ELSE IF ~FracLeq(high, v) THEN "High"
    ELSE IF ~FracLeq(medium, v) THEN "Medium"
    ELSE "Low"

\* the level of a value for which less is better
LevelAtMost(v, elite, high, medium) ==
    IF FracLeq(v, elite) THEN "Elite"
    ELSE IF FracLeq(v, high) THEN "High"
    ELSE IF FracLeq(v, medium) THEN "Medium"
    ELSE "Low"

\* int(x) in the place of round(x): the digits after the point dropped
PyTruncate(x) == IntOf(x)

PyRoundHalfUp(x) ==
    IF x.e >= 0 THEN x.m * Pow2(x.e)
    ELSE IF -x.e > FloatBits + 1 THEN 0
    ELSE (2 * x.m + Pow2(-x.e)) \div (2 * Pow2(-x.e))

\* round(x) of a float that is not negative: to the nearest integer, a half
\* to the even one
PyRound(x) ==
    IF x.e >= 0 THEN x.m * Pow2(x.e)
    ELSE IF -x.e > FloatBits + 1 THEN 0
    ELSE NearestEven(x.m, Pow2(-x.e))

\* level_order[round(avg_level)]; the positions of level_order count from 1
\* here and from 0 in the code
OverallLevel(levels) ==
    LET level_values == [i \in DOMAIN levels |-> LevelIndex(levels[i]) - 1]
        avg_level == FloatDivInt(Frac(level_values[1] + level_values[2]
                                      + level_values[3] + level_values[4], 1),
                                 Len(level_values))
    IN  level_order[PyRound(avg_level) + 1]

get_dora_performance_level(metrics) ==
    LET df == LevelAtLeast(DictGet(metrics, "deployment_frequency", Frac(0, 1)),
                           Frac(1, 1), Frac(14, 100), Frac(33, 1000))
        lt == LevelAtMost(DictGet(metrics, "avg_lead_time_minutes", Inf),
                          Frac(60, 1), Frac(1440, 1), Frac(10080, 1))
        cfr == LevelAtMost(DictGet(metrics, "change_failure_rate", Frac(1, 1)),
                           Frac(15, 100), Frac(30, 100), Frac(45, 100))
        mttr == LevelAtMost(DictGet(metrics, "mttr_minutes", Inf),
                            Frac(60, 1), Frac(1440, 1), Frac(10080, 1))
    IN  [deployment_frequency |-> df,
         lead_time |-> lt,
         change_failure_rate |-> cfr,
         mttr |-> mttr,
         overall |-> OverallLevel(<<df, lt, cfr, mttr>>)]

\* the snapshots of the classification of levels: every key is absent or
\* holds a value on, between or beyond the thresholds
Missing == [k |-> "missing"]

FrequencyValues ==
    {Frac(0, 1), Frac(1, 32), Frac(33, 1000), Frac(1, 8), Frac(14, 100),
     Frac(1, 2), Frac(1, 1), Frac(2, 1)}

MinuteValues ==
    {Frac(0, 1), Frac(60, 1), Frac(121, 2), Frac(1440, 1), Frac(1441, 1),
     Frac(10080, 1), Frac(10081, 1)}

RateValues ==
    {Frac(0, 1), Frac(15, 100), Frac(1, 4), Frac(30, 100), Frac(3, 8),
     Frac(45, 100), Frac(1, 2), Frac(1, 1)}

\* the dict of the keys of r that hold a value
DictOf(r) == [key \in {k \in DOMAIN r : r[k] # Missing} |-> r[key]]

Snapshots ==
    {DictOf([deployment_frequency |-> df, avg_lead_time_minutes |-> lt,
             change_failure_rate |-> cfr, mttr_minutes |-> mttr]) :
        df \in FrequencyValues \cup {Missing},
        lt \in MinuteValues \cup {Missing},
        cfr \in RateValues \cup {Missing},
        mttr \in MinuteValues \cup {Missing}}

---------------------------------------------------------------------------
(* business.py: calculate_correlation *)

\* the positions of the pairs (x, y) with x is not None and y is not None
KeptPairs(x_values, y_values) ==
    SelectSeq([i \in 1..Len(x_values) |-> i],
              LAMBDA i : x_values[i] # NoneValue /\ y_values[i] # NoneValue)

\* sum(s) / n
MeanOf(s) == FloatDivInt(SumSeq(s), Len(s))

\* the series less its mean, term by term
Centered(s) == LET mean == MeanOf(s) IN [i \in DOMAIN s |-> FloatSub(s[i], mean)]

\* sum(d ** 2 for d in dx): d ** 2 is taken as the correctly rounded d * d
\* (the pow of the C library may differ from it in the last bit)
SumSquares(dx) == SumSeq([i \in DOMAIN dx |-> FloatMul(dx[i], dx[i])])

\* the coefficient with the squares of dx alone under the numerator
CoefficientBySquares(dx, dy) ==
    LET numerator == SumSeq([i \in DOMAIN dx |-> FloatMul(dx[i], dy[i])])
        denominator == SumSquares(dx)
    IN  IF denominator = Zero THEN NoneValue ELSE FloatDiv(numerator, denominator)

\* numerator / denominator of calculate_correlation, None if the
\* denominator is 0, for the deviations dx and dy
Coefficient(dx, dy) ==
    LET numerator == SumSeq([i \in DOMAIN dx |-> FloatMul(dx[i], dy[i])])
        denominator == FloatSqrt(FloatMul(SumSquares(dx), SumSquares(dy)))
    IN  IF denominator = Zero THEN NoneValue ELSE FloatDiv(numerator, denominator)

calculate_correlation(x_values, y_values) ==
    IF Len(x_values) # Len(y_values) \/ Len(x_values) < 3 THEN NoneValue
    ELSE LET pairs == KeptPairs(x_values, y_values)
         IN  IF Len(pairs) < 3 THEN NoneValue
             ELSE Coefficient(Centered([j \in DOMAIN pairs |-> x_values[pairs[j]]]),
                              Centered([j \in DOMAIN pairs |-> y_values[pairs[j]]]))

\* the values of a series: None, two whole numbers, and nine tenths, which
\* no float holds exactly
SeriesValues == {NoneValue, Zero, Frac(1, 1), Frac(9, 10)}

\* the pairs at one position of two series: a value or None against a whole
\* number, and a whole number against None
SeriesPoints ==
    ((SeriesValues \X {Zero, Frac(1, 1)}) \ {<<NoneValue, Frac(1, 1)>>})
    \cup {<<Zero, NoneValue>>}

\* the pairs of series of one length, position by position, and the pairs
\* of whole-number series of which the second is one shorter
SeriesPairs ==
    {<<[i \in DOMAIN s |-> s[i][1]], [i \in DOMAIN s |-> s[i][2]]>> :
        s \in BoundedSeq(SeriesPoints, MaxSeries)}
    \cup UNION {[1..k -> {Zero, Frac(1, 1)}] \X [1..(k - 1) -> {Zero, Frac(1, 1)}] :
                    k \in 1..MaxSeries}

---------------------------------------------------------------------------
(* business.py: interpret_correlation and compute_correlations *)

\* f"{corr:.2f}": the value in hundredths
FormatHundredths(corr) ==
    IF corr.e >= 0 THEN 100 * corr.m * Pow2(corr.e)
    ELSE IF -corr.e > 30 THEN 0
    ELSE IF corr.m >= 0 THEN RoundHalfEven(100 * corr.m, Pow2(-corr.e))
    ELSE -RoundHalfEven(100 * (-corr.m), Pow2(-corr.e))

\* the sentence of interpret_correlation, by its parts
interpret_correlation(corr, metric1, metric2) ==
    IF corr = NoneValue
    THEN [text |-> "Insufficient data to correlate", metric1 |-> metric1, metric2 |-> metric2]
    ELSE LET abs_corr == IF corr.m < 0 THEN Neg(corr) ELSE corr
             strength == IF FracLeq(Frac(7, 10), abs_corr) THEN "strongly"
                         ELSE IF FracLeq(Frac(4, 10), abs_corr) THEN "moderately"
                         ELSE IF FracLeq(Frac(2, 10), abs_corr) THEN "weakly"
                         ELSE "none"
         IN  IF strength = "none"
             THEN [text |-> "No significant correlation between",
                   metric1 |-> metric1, metric2 |-> metric2]
             ELSE [text |-> "is correlated with", metric1 |-> metric1, metric2 |-> metric2,
                   strength |-> strength,
                   direction |-> IF corr.m > 0 THEN "positively" ELSE "negatively",
                   r |-> FormatHundredths(corr)]

\* sorted(S) for a set of dates
RECURSIVE sorted(_)
sorted(S) ==
    IF S = {} THEN <<>>
    ELSE LET least == CHOOSE d \in S : \A e \in S : d <= e
         IN  <<least>> \o sorted(S \ {least})

\* [by_date[d][key] for d in common_dates]
ValuesOf(by_date, key, common_dates) ==
    [i \in DOMAIN common_dates |-> by_date[common_dates[i]][key]]

\* the test with 6 dates let through
FewerThanSix(common_dates) == Len(common_dates) < 6

\* len(common_dates) < 7
TooFewDates(common_dates) == Len(common_dates) < 7

\* the test without the threshold: any coefficient above 0
AboveZero(corr) == corr # NoneValue /\ corr.m > 0

\* corr and corr > 0.3 / corr and corr < -0.3: None and 0.0 are falsy
AboveThreshold(corr) ==
    corr # NoneValue /\ corr # Zero /\ ~FracLeq(corr, Frac(3, 10))
BelowThreshold(corr) ==
    corr # NoneValue /\ corr # Zero /\ ~FracLeq(Frac(-3, 10), corr)

\* the insights of compute_correlations, in the order of the four tests
InsightsOf(correlations) ==
    (IF AboveThreshold(correlations.df_revenue)
     THEN <<[type |-> "positive",
             insight |-> interpret_correlation(correlations.df_revenue,
                                               "Deployment Frequency", "Revenue"),
             recommendation |-> "Continue investing in deployment automation to drive revenue growth"]>>
     ELSE <<>>)
    \o (IF AboveThreshold(correlations.cfr_incidents)
        THEN <<[type |-> "warning",
                insight |-> interpret_correlation(correlations.cfr_incidents,
                                                  "Change Failure Rate", "Incidents"),
                recommendation |-> "Improve testing and code review processes to reduce production incidents"]>>
        ELSE <<>>)
    \o (IF BelowThreshold(correlations.mttr_satisfaction)
        THEN <<[type |-> "positive",
                insight |-> "Faster incident recovery correlates with higher customer satisfaction",
                recommendation |-> "Invest in observability and incident response automation"]>>
        ELSE <<>>)
    \o (IF BelowThreshold(correlations.leadtime_satisfaction)
        THEN <<[type |-> "positive",
                insight |-> "Shorter lead times correlate with better customer satisfaction",
                recommendation |-> "Focus on reducing cycle time through smaller batches and automation"]>>
        ELSE <<>>)

\* compute_correlations on the rows the two queries return, by date
compute_correlations(dora_by_date, business_by_date) ==
    LET common_dates == sorted(DOMAIN dora_by_date \cap DOMAIN business_by_date)
    IN  IF TooFewDates(common_dates)
        THEN [status |-> "insufficient_data",
              found |-> Len(common_dates),
              correlations |-> <<>>,
              insights |-> <<>>]
        ELSE LET df_values == ValuesOf(dora_by_date, "deployment_frequency", common_dates)
                 lt_values == ValuesOf(dora_by_date, "avg_lead_time_minutes", common_dates)
                 cfr_values == ValuesOf(dora_by_date, "change_failure_rate", common_dates)
                 mttr_values == ValuesOf(dora_by_date, "mttr_minutes", common_dates)
                 revenue_values == ValuesOf(business_by_date, "revenue", common_dates)
                 satisfaction_values ==
                     ValuesOf(business_by_date, "customer_satisfaction_score", common_dates)
                 incident_values == ValuesOf(business_by_date, "incidents", common_dates)
                 churn_values == ValuesOf(business_by_date, "customer_churn_rate", common_dates)
                 uptime_values == ValuesOf(business_by_date, "uptime_percentage", common_dates)
                 correlations ==
                     [df_revenue |-> calculate_correlation(df_values, revenue_values),
                      df_satisfaction |-> calculate_correlation(df_values, satisfaction_values),
                      leadtime_revenue |-> calculate_correlation(lt_values, revenue_values),
                      leadtime_satisfaction |-> calculate_correlation(lt_values, satisfaction_values),
                      cfr_incidents |-> calculate_correlation(cfr_values, incident_values),
                      cfr_churn |-> calculate_correlation(cfr_values, churn_values),
                      mttr_satisfaction |-> calculate_correlation(mttr_values, satisfaction_values),
                      mttr_uptime |-> calculate_correlation(mttr_values, uptime_values)]
             IN  [status |-> "success",
                  period |-> [start |-> common_dates[1],
                              end |-> common_dates[Len(common_dates)],
                              days |-> Len(common_dates)],
                  correlations |-> correlations,
                  insights |-> InsightsOf(correlations)]

\* the value of a stored series on day d: rising, falling, rising in tenths,
\* alternating between 0 and 1, constant, and rising with every third day
\* missing
Trend(t, d) ==
    CASE t = "up" -> Frac(d, 1)
      [] t = "down" -> Frac(10 - d, 1)
      [] t = "tenths" -> Frac(d, 10)
      [] t = "wave" -> IF d % 2 = 0 THEN Frac(1, 1) ELSE Zero
      [] t = "flat" -> Frac(1, 1)
      [] t = "gaps" -> IF d % 3 = 0 THEN NoneValue ELSE Frac(d, 1)

\* the stored DORA histories and the stored business histories: all days,
\* all but one, and none or all but the last three
DoraHistories ==
    {[d \in days |-> [deployment_frequency |-> Trend(df, d),
                      avg_lead_time_minutes |-> Trend(lt, d),
                      change_failure_rate |-> Trend(cfr, d),
                      mttr_minutes |-> Trend(mttr, d)]] :
        days \in {1..MaxDays, 2..MaxDays, 1..(MaxDays - 1), {}},
        df \in {"up", "wave"}, lt \in {"down"},
        cfr \in {"tenths", "flat"}, mttr \in {"up", "down"}}

BusinessHistories ==
    {[d \in days |-> [revenue |-> Trend(revenue, d),
                      customer_satisfaction_score |-> Trend(satisfaction, d),
                      incidents |-> Trend(incidents, d),
                      customer_churn_rate |-> Trend("tenths", d),
                      uptime_percentage |-> Trend("down", d)]] :
        days \in {1..MaxDays, (1..MaxDays) \ {2}, 1..(MaxDays - 1), 1..(MaxDays - 3)},
        revenue \in {"up", "gaps"}, satisfaction \in {"up", "down"},
        incidents \in {"up", "flat"}}

---------------------------------------------------------------------------
(* business.py: calculate_business_impact *)

\* df_before > 0 and df_after > df_before
Rose(before, after) == before.m > 0 /\ ~FracLeq(after, before)

FellOrStayed(before, after) == before.m > 0 /\ FracLeq(after, before)

\* lt_before > 0 and lt_after < lt_before, and so for the failure rate and
\* the recovery time
Fell(before, after) == before.m > 0 /\ ~FracLeq(before, after)

ImprovementRatio(gain, before) == FloatDiv(gain, before)

\* ((after - before) / before) * 100, and ((before - after) / before) * 100
ImprovementPct(gain, before) == FloatMul(FloatDiv(gain, before), Frac(100, 1))

ListedUncounted(acc, record) ==
    [impacts |-> Append(acc.impacts, record),
     total_annual_savings |-> acc.total_annual_savings]

\* total_annual_savings += the value; impacts.append(the record)
Listed(acc, record) ==
    [impacts |-> Append(acc.impacts, record),
     total_annual_savings |-> FloatAdd(acc.total_annual_savings, record.estimated_value)]

\* the deployment frequency block
DeploymentFrequencyImpact(acc, dora_before, dora_after, annual_revenue) ==
    LET df_before == DictGet(dora_before, "deployment_frequency", Zero)
        df_after == DictGet(dora_after, "deployment_frequency", Zero)
        df_improvement == ImprovementPct(FloatSub(df_after, df_before), df_before)
        revenue_impact == FloatMul(FloatMul(annual_revenue,
                                            FloatDiv(df_improvement, Frac(10, 1))),
                                   Frac(5, 1000))
    IN  IF Rose(df_before, df_after)
        THEN Listed(acc, [metric |-> "Deployment Frequency",
                          before |-> df_before,
                          after |-> df_after,
                          improvement_pct |-> df_improvement,
                          estimated_value |-> revenue_impact,
                          insight |-> [text |-> "Increased deployment frequency by, enabling faster feature delivery",
                                       pct |-> FormatTenths(df_improvement)]])
        ELSE acc

\* the lead time block
LeadTimeImpact(acc, dora_before, dora_after, engineer_hourly_rate) ==
    LET df_after == DictGet(dora_after, "deployment_frequency", Zero)
        lt_before == DictGet(dora_before, "avg_lead_time_minutes", Zero)
        lt_after == DictGet(dora_after, "avg_lead_time_minutes", Zero)
        lt_improvement == ImprovementPct(FloatSub(lt_before, lt_after), lt_before)
        time_saved_hours ==
            FloatMul(FloatMul(FloatDiv(FloatSub(lt_before, lt_after), Frac(60, 1)),
                              df_after),
                     Frac(52, 1))
        labor_savings == FloatMul(time_saved_hours, engineer_hourly_rate)
    IN  IF Fell(lt_before, lt_after)
        THEN Listed(acc, [metric |-> "Lead Time",
                          before |-> lt_before,
                          after |-> lt_after,
                          improvement_pct |-> lt_improvement,
                          estimated_value |-> labor_savings,
                          insight |-> [text |-> "Reduced lead time by, saving engineering hours annually",
                                       pct |-> FormatTenths(lt_improvement),
                                       count |-> PyRound(time_saved_hours)]])
        ELSE acc

\* the change failure rate block
ChangeFailureRateImpact(acc, dora_before, dora_after, avg_incident_cost) ==
    LET df_after == DictGet(dora_after, "deployment_frequency", Zero)
        cfr_before == DictGet(dora_before, "change_failure_rate", Zero)
        cfr_after == DictGet(dora_after, "change_failure_rate", Zero)
        cfr_improvement == ImprovementPct(FloatSub(cfr_before, cfr_after), cfr_before)
        incidents_prevented ==
            FloatMul(FloatMul(FloatSub(cfr_before, cfr_after), df_after), Frac(52, 1))
        incident_savings == FloatMul(incidents_prevented, avg_incident_cost)
    IN  IF Fell(cfr_before, cfr_after)
        THEN Listed(acc, [metric |-> "Change Failure Rate",
                          before |-> cfr_before,
                          after |-> cfr_after,
                          improvement_pct |-> cfr_improvement,
                          estimated_value |-> incident_savings,
                          insight |-> [text |-> "Reduced failure rate by, preventing incidents annually",
                                       pct |-> FormatTenths(cfr_improvement),
                                       count |-> PyRound(incidents_prevented)]])
        ELSE acc

\* the recovery time block
MttrImpact(acc, dora_before, dora_after, annual_revenue) ==
    LET df_after == DictGet(dora_after, "deployment_frequency", Zero)
        cfr_after == DictGet(dora_after, "change_failure_rate", Zero)
        mttr_before == DictGet(dora_before, "mttr_minutes", Zero)
        mttr_after == DictGet(dora_after, "mttr_minutes", Zero)
        mttr_improvement == ImprovementPct(FloatSub(mttr_before, mttr_after), mttr_before)
        downtime_saved_hours ==
            FloatMul(FloatMul(FloatMul(FloatDiv(FloatSub(mttr_before, mttr_after),
                                                Frac(60, 1)),
                                       cfr_after),
                              df_after),
                     Frac(52, 1))
        downtime_cost_per_hour == FloatDiv(annual_revenue, Frac(365 * 24, 1))
        downtime_savings == FloatMul(downtime_saved_hours, downtime_cost_per_hour)
    IN  IF Fell(mttr_before, mttr_after)
        THEN Listed(acc, [metric |-> "Mean Time to Recovery",
                          before |-> mttr_before,
                          after |-> mttr_after,
                          improvement_pct |-> mttr_improvement,
                          estimated_value |-> downtime_savings,
                          insight |-> [text |-> "Reduced recovery time by, minimizing downtime impact",
                                       pct |-> FormatTenths(mttr_improvement)]])
        ELSE acc

ImpactPerEngineer(dora_before, dora_after, business_context) ==
    LET context == IF business_context = NoneValue \/ DOMAIN business_context = {}
                   THEN <<>> ELSE business_context
        annual_revenue == DictGet(context, "annual_revenue", Frac(1000000, 1))
        avg_incident_cost == DictGet(context, "avg_incident_cost", Frac(5000, 1))
        engineer_hourly_rate == DictGet(context, "engineer_hourly_rate", Frac(75, 1))
        team_size == DictGet(context, "team_size", Frac(10, 1))
        none == [impacts |-> <<>>, total_annual_savings |-> Zero]
        df == DeploymentFrequencyImpact(none, dora_before, dora_after, annual_revenue)
        lt == LeadTimeImpact(df, dora_before, dora_after,
                             FloatMul(engineer_hourly_rate, team_size))
        cfr == ChangeFailureRateImpact(lt, dora_before, dora_after, avg_incident_cost)
        mttr == MttrImpact(cfr, dora_before, dora_after, annual_revenue)
    IN  [impacts |-> mttr.impacts,
         total_annual_savings |-> mttr.total_annual_savings,
         roi_summary |-> [text |-> "Estimated annual value of improvements: $",
                          dollars |-> PyRound(mttr.total_annual_savings)],
         methodology |-> "Based on DORA research and industry benchmarks"]

\* calculate_business_impact(dora_before, dora_after, business_context); an
\* empty dictionary is a function on no key, and an int is held as the float
\* of the same value
calculate_business_impact(dora_before, dora_after, business_context) ==
    LET context == IF business_context = NoneValue \/ DOMAIN business_context = {}
                   THEN <<>> ELSE business_context
        annual_revenue == DictGet(context, "annual_revenue", Frac(1000000, 1))
        avg_incident_cost == DictGet(context, "avg_incident_cost", Frac(5000, 1))
        engineer_hourly_rate == DictGet(context, "engineer_hourly_rate", Frac(75, 1))
        team_size == DictGet(context, "team_size", Frac(10, 1))
        none == [impacts |-> <<>>, total_annual_savings |-> Zero]
        df == DeploymentFrequencyImpact(none, dora_before, dora_after, annual_revenue)
        lt == LeadTimeImpact(df, dora_before, dora_after, engineer_hourly_rate)
        cfr == ChangeFailureRateImpact(lt, dora_before, dora_after, avg_incident_cost)
        mttr == MttrImpact(cfr, dora_before, dora_after, annual_revenue)
    IN  [impacts |-> mttr.impacts,
         total_annual_savings |-> mttr.total_annual_savings,
         roi_summary |-> [text |-> "Estimated annual value of improvements: $",
                          dollars |-> PyRound(mttr.total_annual_savings)],
         methodology |-> "Based on DORA research and industry benchmarks"]

\* the snapshots of a call: a key is absent or holds a float
ImpactSnapshots ==
    {DictOf(r) : r \in
        [deployment_frequency : {Missing, Zero, Frac(1, 10), Frac(1, 1)},
         avg_lead_time_minutes : {Missing, Frac(30, 1), Frac(45, 1)},
         change_failure_rate : {Zero, Frac(1, 10), Frac(3, 10)},
         mttr_minutes : {Missing, Frac(90, 1)}]}

\* the business contexts of a call: None, and dictionaries of some keys, one
\* of them with a negative rate
BusinessContexts ==
    {NoneValue,
     [team_size |-> Frac(50, 1)],
     [annual_revenue |-> Frac(2500000, 1), team_size |-> Frac(3, 1)],
     [annual_revenue |-> Zero, avg_incident_cost |-> Zero,
      engineer_hourly_rate |-> Frac(100, 1)],
     [engineer_hourly_rate |-> Frac(-75, 1)]}

---------------------------------------------------------------------------
(* main.py: calculate_impact, the handler of POST /business/impact *)

\* `if req.annual_revenue:` and the like: a field that is None or 0 is falsy
OptionGiven(req, key) == req[key] # NoneValue /\ req[key].m # 0

\* calculate_impact(req): the context holds the fields that are truthy, and
\* None is passed for a context that holds none
calculate_impact(req) ==
    LET given == {key \in {"annual_revenue", "avg_incident_cost",
                           "engineer_hourly_rate", "team_size"} : OptionGiven(req, key)}
        business_context == [key \in given |-> req[key]]
    IN  calculate_business_impact(req.dora_before, req.dora_after,
                                  IF given = {} THEN NoneValue ELSE business_context)

\* the options of a request: each is None or a number
ImpactOptions ==
    {[annual_revenue |-> NoneValue, avg_incident_cost |-> NoneValue,
      engineer_hourly_rate |-> NoneValue, team_size |-> NoneValue],
     [annual_revenue |-> Zero, avg_incident_cost |-> NoneValue,
      engineer_hourly_rate |-> NoneValue, team_size |-> Frac(3, 1)],
     [annual_revenue |-> Frac(2500000, 1), avg_incident_cost |-> Zero,
      engineer_hourly_rate |-> Frac(100, 1), team_size |-> Zero]}

\* the records of the insight runs: merged on day 1 by alice, by bob, and
\* with no user login
InsightPRs ==
    {PullRequest(Text(1, EarlyTime, "Z"), Text(1, LateTime, "Z"), title_feature, <<>>, login) :
        login \in {"alice", "bob", ""}}

InsightBatches == BoundedSeq(InsightPRs, MaxTally)

---------------------------------------------------------------------------
(* main.py: the endpoints that read, and chat *)

\* what a handler answers: the HTTP status, the tables read and the MCP
\* tools called on the way, in their order, and the body
Answer(status, accessed, body) == [status |-> status, accessed |-> accessed, body |-> body]

\* raise HTTPException(status_code=400, ...) for the repository and for a
\* number out of its range
InvalidRepo == Answer(400, <<>>, "Invalid repo format; expected owner/repo")
OutOfRange == Answer(400, <<>>, "out of range")

\* an exception that leaves the handler, after the accesses made
ServerError(accessed) == Answer(500, accessed, "Internal Server Error")

\* WHERE repo_id = $1 AND date >= since: the dates of the rows selected
StoredDates(table, repo, since) ==
    {k[2] : k \in {k \in DOMAIN table : k[1] = repo /\ k[2] >= since}}

\* the rows of repo on the dates of the list dates
RowsOn(table, repo, dates) ==
    [i \in DOMAIN dates |-> [date |-> dates[i], row |-> table[<<repo, dates[i]>>]]]

\* the list in reverse
Reversed(list) == [i \in DOMAIN list |-> list[Len(list) + 1 - i]]

\* the rows of the keys of a query, in an order of the database's choosing
RECURSIVE RowsIn(_, _)
RowsIn(table, keys) ==
    IF keys = {} THEN <<>>
    ELSE LET k == CHOOSE k \in keys : TRUE
         IN  <<table[k]>> \o RowsIn(table, keys \ {k})

\* get_dora_metrics(repo, range_days) on day today
get_dora_metrics(repo, range_days, today, dora) ==
    IF ~HasSlash(repo) THEN InvalidRepo
    ELSE IF range_days < 1 \/ range_days > 180 THEN OutOfRange
    ELSE Answer(200, <<"dora_metrics">>,
                [repo |-> repo, range_days |-> range_days,
                 metrics |-> RowsOn(dora, repo,
                                    sorted(StoredDates(dora, repo, today - range_days)))])

\* [p for p in items if p.get("merged_at", "").startswith(str(date))], from
\* record i on: [raised, merged]; None.startswith raises AttributeError
RECURSIVE MergedThatDay(_, _, _, _)
MergedThatDay(items, i, date, merged) ==
    IF i > Len(items) THEN [raised |-> FALSE, merged |-> merged]
    ELSE IF GetOrEmpty(items[i].merged_at).k = "null" THEN [raised |-> TRUE, merged |-> merged]
    ELSE IF StartsWithDay(GetOrEmpty(items[i].merged_at), date)
    THEN MergedThatDay(items, i + 1, date, Append(merged, items[i]))
    ELSE MergedThatDay(items, i + 1, date, merged)

\* get_dora_drilldown(repo, date), the MCP server answering with prs
get_dora_drilldown(repo, date, prs) ==
    IF ~HasSlash(repo) THEN InvalidRepo
    ELSE LET found == MergedThatDay(PrsOf(_post_json(prs)), 1, date, <<>>)
         IN  IF found.raised THEN ServerError(<<"list_pull_requests">>)
             ELSE Answer(200, <<"list_pull_requests">>,
                         [repo |-> repo, date |-> date, pull_requests |-> found.merged])

\* a commit record: "author" is absent, null or a user with a login, and
\* name is commit.author.name, "" when there is none
Commit(author, name) == [author |-> author, name |-> name]
User(login) == [k |-> "user", login |-> login]

\* c.get("author", {}).get("login") or c.get("commit", {}).get("author", {}).get("name"),
\* from record i on: [raised, authors], the records without a name left
\* out; a null author raises AttributeError
RECURSIVE CommitAuthors(_, _, _)
CommitAuthors(items, i, authors) ==
    IF i > Len(items) THEN [raised |-> FALSE, authors |-> authors]
    ELSE IF items[i].author.k = "null" THEN [raised |-> TRUE, authors |-> authors]
    ELSE LET login == IF items[i].author.k = "user" THEN items[i].author.login ELSE ""
             author == IF login # "" THEN login ELSE items[i].name
         IN  CommitAuthors(items, i + 1,
                           IF author # "" THEN Append(authors, author) ELSE authors)

\* sorted(authors.items(), key=lambda x: x[1], reverse=True) as a list of
\* {author, commit_count}
SortedAuthors(authors) ==
    LET names == SortByCount(FirstSeen(authors, <<>>), authors)
    IN  [i \in DOMAIN names |->
            [author |-> names[i], commit_count |-> CountOf(authors, names[i])]]

\* sorted_authors and sorted_authors[0][1] / total >= 0.8, total being
\* sum(authors.values()) or 1
CommitRiskFlags(authors) ==
    IF /\ authors # <<>>
       /\ FracLeq(Frac(8, 10), Frac(SortedAuthors(authors)[1].commit_count, Len(authors)))
    THEN <<"bus_factor">> ELSE <<>>

\* get_contributor_risk(repo, lookback_days), the MCP server answering
\* with commits
get_contributor_risk(repo, lookback_days, commits) ==
    IF ~HasSlash(repo) THEN InvalidRepo
    ELSE IF lookback_days < 1 \/ lookback_days > 180 THEN OutOfRange
    ELSE LET found == CommitAuthors(PrsOf(_post_json(commits)), 1, <<>>)
         IN  IF found.raised THEN ServerError(<<"list_commits">>)
             ELSE Answer(200, <<"list_commits">>,
                         [repo |-> repo, lookback_days |-> lookback_days,
                          authors |-> SortedAuthors(found.authors),
                          risk_flags |-> CommitRiskFlags(found.authors)])

\* the first n elements of a list
FirstOf(list, n) == SubSeq(list, 1, IF Len(list) < n THEN Len(list) ELSE n)

\* get_daily_insights(repo, limit): ORDER BY date DESC LIMIT $2
get_daily_insights(repo, limit, insights) ==
    IF ~HasSlash(repo) THEN InvalidRepo
    ELSE IF limit < 1 \/ limit > 30 THEN OutOfRange
    ELSE Answer(200, <<"daily_insights">>,
                [repo |-> repo, limit |-> limit,
                 insights |-> FirstOf(RowsOn(insights, repo,
                                             Reversed(sorted(StoredDates(insights, repo, 0)))),
                                      limit)])

\* a query parameter that may be left out
NotGiven == [given |-> FALSE]
Given(value) == [given |-> TRUE, value |-> value]

\* AVG(column) over the rows
AvgOf(rows, column) ==
    FloatDivInt(SumSeq([i \in DOMAIN rows |-> rows[i][column]]), Len(rows))

\* levels.get(key) in ["Low", "Medium"]
NeedsWork(levels, key) == levels[key] \in {"Low", "Medium"}

\* _get_improvement_recommendations(levels), each text by the metric it is about
_get_improvement_recommendations(levels) ==
    (IF NeedsWork(levels, "deployment_frequency") THEN <<"deployment_frequency">> ELSE <<>>)
    \o (IF NeedsWork(levels, "lead_time") THEN <<"lead_time">> ELSE <<>>)
    \o (IF NeedsWork(levels, "change_failure_rate") THEN <<"change_failure_rate">> ELSE <<>>)
    \o (IF NeedsWork(levels, "mttr") THEN <<"mttr">> ELSE <<>>)
    \o (IF levels.overall = "Elite" THEN <<"overall">> ELSE <<>>)

\* the body of get_performance_level for the rows of its query
PerformanceOf(repo, range_days, rows) ==
    IF rows = <<>> THEN [status |-> "no_data"]
    ELSE LET metrics == [key \in {"deployment_frequency", "avg_lead_time_minutes",
                                  "change_failure_rate", "mttr_minutes"} |-> AvgOf(rows, key)]
         IN  [repo |-> repo, range_days |-> range_days, metrics |-> metrics,
              performance_levels |-> get_dora_performance_level(metrics),
              recommendations |->
                  _get_improvement_recommendations(get_dora_performance_level(metrics))]

\* get_performance_level(repo, range_days) on day today: `if repo:` selects
\* the rows of one repository, and the repository is not checked
get_performance_level(repo, range_days, today, dora) ==
    IF range_days < 1 \/ range_days > 180 THEN OutOfRange
    ELSE IF repo.given /\ repo.value # <<>>
    THEN Answer(200, <<"dora_metrics">>,
                PerformanceOf(repo, range_days,
                              RowsIn(dora, {k \in DOMAIN dora :
                                               k[1] = repo.value /\ k[2] >= today - range_days})))
    ELSE Answer(200, <<"dora_metrics">>,
                PerformanceOf(repo, range_days,
                              RowsIn(dora, {k \in DOMAIN dora : k[2] >= today - range_days})))

\* any(kw in message_lower for kw in [...]): the question needs GitHub data
needs_github_data(message_lower) ==
    \E kw \in {<<"c", "o", "m", "m", "i", "t">>,
              <<"p", "r">>,
              <<"p", "u", "l", "l", " ", "r", "e", "q", "u", "e", "s", "t">>,
              <<"s", "h", "i", "p", "p", "e", "d">>,
              <<"m", "e", "r", "g", "e", "d">>,
              <<"d", "e", "p", "l", "o", "y">>,
              <<"r", "e", "l", "e", "a", "s", "e">>,
              <<"c", "h", "a", "n", "g", "e">>,
              <<"w", "h", "o">>,
              <<"a", "u", "t", "h", "o", "r">>,
              <<"c", "o", "n", "t", "r", "i", "b", "u", "t", "o", "r">>} :
        Contains(message_lower, kw)

\* "list_commits" if "commit" in message_lower else "list_pull_requests"
ToolOf(message_lower) ==
    IF ~needs_github_data(message_lower) THEN "none"
    ELSE IF Contains(message_lower, <<"c", "o", "m", "m", "i", "t">>) THEN "list_commits"
    ELSE "list_pull_requests"

\* the first branch of _build_fallback_answer: the concept the question
\* asks to explain, "none" when it asks for none
ConceptOf(message_lower) ==
    IF ~\E kw \in {<<"w", "h", "a", "t", " ", "i", "s">>,
                    <<"w", "h", "a", "t", " ", "a", "r", "e">>,
                    <<"e", "x", "p", "l", "a", "i", "n">>,
                    <<"d", "e", "f", "i", "n", "e">>,
                    <<"m", "e", "a", "n", "i", "n", "g">>} :
            Contains(message_lower, kw)
    THEN "none"
    ELSE IF Contains(message_lower, <<"d", "o", "r", "a">>) THEN "DORA Metrics"
    ELSE IF \/ Contains(message_lower, <<"m", "c", "p">>)
            \/ Contains(message_lower, <<"m", "o", "d", "e", "l", " ", "c", "o", "n", "t", "e", "x", "t", " ", "p", "r", "o", "t", "o", "c", "o", "l">>)
    THEN "MCP"
    ELSE IF Contains(message_lower, <<"l", "e", "a", "d", " ", "t", "i", "m", "e">>) THEN "Lead Time for Changes"
    ELSE IF \/ Contains(message_lower, <<"d", "e", "p", "l", "o", "y", "m", "e", "n", "t", " ", "f", "r", "e", "q", "u", "e", "n", "c", "y">>)
            \/ Contains(message_lower, <<"d", "e", "p", "l", "o", "y">>)
    THEN "Deployment Frequency"
    ELSE IF \/ Contains(message_lower, <<"c", "h", "a", "n", "g", "e", " ", "f", "a", "i", "l", "u", "r", "e">>)
            \/ Contains(message_lower, <<"c", "f", "r">>)
    THEN "Change Failure Rate"
    ELSE IF \/ Contains(message_lower, <<"m", "t", "t", "r">>)
            \/ Contains(message_lower, <<"r", "e", "c", "o", "v", "e", "r", "y">>)
    THEN "Mean Time to Recovery"
    ELSE "none"

\* f"{avg_cfr:.1%}": the value in tenths of a percent
FormatPermille(x) ==
    IF x.e >= 0 THEN 1000 * x.m * Pow2(x.e)
    ELSE RoundHalfEven(1000 * x.m, Pow2(-x.e))

\* the answer built from the stored metrics
MetricsAnswer(repo, lookback_days, metrics) ==
    [kind |-> "metrics", repo |-> repo, lookback_days |-> lookback_days,
     total_deps |-> SumSeq([i \in DOMAIN metrics |-> metrics[i].row.deployment_frequency]),
     lead_tenths |->
         FormatTenths(FloatDivInt(
             SumSeq([i \in DOMAIN metrics |-> metrics[i].row.avg_lead_time_minutes]),
             Len(metrics))),
     cfr_permille |->
         FormatPermille(FloatDivInt(
             SumSeq([i \in DOMAIN metrics |-> metrics[i].row.change_failure_rate]),
             Len(metrics))),
     data_points |-> Len(metrics)]

\* the answer built from the fetched items: "Found **N commits|PRs** ..."
FoundAnswer(lookback_days, items, tool, contributors) ==
    [kind |-> "found", count |-> Len(items),
     noun |-> IF tool = "list_commits" THEN "commits" ELSE "PRs",
     lookback_days |-> lookback_days,
     top_authors |-> IF contributors = <<>> THEN <<"N/A">>
                     ELSE [i \in DOMAIN FirstOf(contributors, 3) |-> contributors[i].author]]

\* _build_fallback_answer(message, repo, lookback_days, metrics, items, tool, contributors)
_build_fallback_answer(message, repo, lookback_days, metrics, items, tool, contributors) ==
    IF ConceptOf(Lower(message)) # "none"
    THEN [kind |-> "concept", concept |-> ConceptOf(Lower(message))]
    ELSE IF metrics # <<>> THEN MetricsAnswer(repo, lookback_days, metrics)
    ELSE IF items # <<>> THEN FoundAnswer(lookback_days, items, tool, contributors)
    ELSE [kind |-> "no_data", repo |-> repo]

\* the contributors of chat: an exception leaves the list empty
ChatContributors(commits) ==
    IF CommitAuthors(PrsOf(_post_json(commits)), 1, <<>>).raised THEN <<>>
    ELSE SortedAuthors(CommitAuthors(PrsOf(_post_json(commits)), 1, <<>>).authors)

\* what chat calls and reads once the repository is accepted
ChatAccesses(tool) ==
    (IF tool = "none" THEN <<>> ELSE <<tool>>)
    \o <<"dora_metrics", "daily_insights", "list_commits">>

\* chat(req) on day today: mcp holds the answers of the MCP server to
\* list_pull_requests and list_commits, env is the environment of llm.py
chat(req, mcp, env, today, dora, insights) ==
    IF ~HasSlash(req.repo) THEN InvalidRepo
    ELSE
        LET tool == ToolOf(Lower(req.message))
            items == IF tool = "none" THEN <<>>
                     ELSE IF tool = "list_commits" THEN PrsOf(_post_json(mcp.commits))
                     ELSE PrsOf(_post_json(mcp.pull_requests))
            metrics == RowsOn(dora, req.repo,
                              Reversed(sorted(StoredDates(dora, req.repo,
                                                          today - req.lookback_days))))
            contributors == ChatContributors(mcp.commits)
            llm_answer == summarize_chat(env)
        IN  Answer(200, ChatAccesses(tool),
                   [answer |-> IF llm_answer.by = "llm" THEN llm_answer
                               ELSE _build_fallback_answer(req.message, req.repo,
                                                           req.lookback_days, metrics,
                                                           items, tool, contributors),
                    tool |-> tool,
                    data_used |-> IF tool = "none" THEN <<>> ELSE FirstOf(items, 5)])

---------------------------------------------------------------------------
(* business.py: upsert_business_metrics; main.py: post_business_metrics *)

\* the columns of business_metrics beside the key
BusinessColumns ==
    {"revenue", "new_customers", "customer_churn_rate", "customer_satisfaction_score",
     "support_tickets", "avg_resolution_time_hours", "incidents", "incident_severity_avg",
     "uptime_percentage", "features_shipped", "bug_reports", "custom_metrics"}

\* a number, a dict by its name, and the JSON text json.dumps makes of a
\* value; None and the SQL NULL are Null
Number(n) == [k |-> "number", n |-> n]
Dict(name) == [k |-> "dict", name |-> name]
json_dumps(value) == [k |-> "json", of |-> value]

\* metrics.get(key, default)
MetricOr(metrics, key, default) == IF key \in DOMAIN metrics THEN metrics[key] ELSE default

\* the values bound to $3 .. $14: metrics.get(key) for ten columns,
\* metrics.get("incidents", 0), and json.dumps(metrics.get("custom_metrics", {}))
BoundValues(metrics) ==
    [c \in BusinessColumns |->
        IF c = "incidents" THEN MetricOr(metrics, c, Number(0))
        ELSE IF c = "custom_metrics" THEN json_dumps(MetricOr(metrics, c, Dict("empty")))
        ELSE MetricOr(metrics, c, Null)]

\* COALESCE(EXCLUDED.column, business_metrics.column)
COALESCE(excluded, stored) == IF excluded # Null THEN excluded ELSE stored

\* the table after upsert_business_metrics(pool, org_id, date, metrics):
\* INSERT ... ON CONFLICT (org_id, date) DO UPDATE SET ...
upsert_business_metrics(table, org_id, date, metrics) ==
    [key \in DOMAIN table \cup {<<org_id, date>>} |->
        IF key # <<org_id, date>> THEN table[key]
        ELSE IF key \in DOMAIN table
        THEN [c \in BusinessColumns |-> COALESCE(BoundValues(metrics)[c], table[key][c])]
        ELSE BoundValues(metrics)]

\* req.model_dump(exclude={"org_id", "date"}): every column is a key, None
\* for a field the request leaves out
model_dump(fields) == [c \in BusinessColumns |-> MetricOr(fields, c, Null)]

\* the fields of the writes: a revenue, a number of incidents, custom
\* metrics, or none of them
BusinessFields ==
    {[c \in S |-> CASE c = "revenue" -> Number(100)
                    [] c = "incidents" -> Number(3)
                    [] c = "custom_metrics" -> Dict("nps")] :
        S \in SUBSET {"revenue", "incidents", "custom_metrics"}}

\* the keys written to
BusinessKeys == {<<"default", 1>>, <<"acme", 1>>}

---------------------------------------------------------------------------
(* The state machine *)

NoCall == [op |-> "none"]

Init ==
    /\ dora_metrics = <<>>
    /\ daily_insights = <<>>
    /\ business_metrics = <<>>
    /\ call = NoCall
    /\ result = NoCall
    /\ ncalls = 0

\* one call of compute_dora_from_prs on a batch of Batches
ComputeDora(Batches) ==
    /\ ncalls = 0
    /\ \E batch \in Batches :
        /\ call' = [op |-> "compute_dora_from_prs", prs |-> batch]
        /\ result' = compute_dora_from_prs(batch)
    /\ ncalls' = ncalls + 1
    /\ UNCHANGED <<dora_metrics, daily_insights, business_metrics>>

\* POST /ingest with a list of Lists; the MCP server answers from Answers
\* and llm.py runs in an environment of Envs; at most cap calls are made
Ingest(Lists, Answers, Envs, cap) ==
    /\ ncalls < cap
    /\ \E repositories \in Lists :
        IF \E i \in DOMAIN repositories : ~HasSlash(repositories[i])
        THEN /\ call' = [op |-> "ingest", repositories |-> repositories]
             /\ result' = [status |-> 400]
             /\ UNCHANGED <<dora_metrics, daily_insights, business_metrics>>
        ELSE \E fetched \in [Range(repositories) -> Answers], env \in Envs :
                LET out == IngestLoop(repositories, 1, fetched, enhance_insight(env),
                                      LoopState(FALSE, dora_metrics, daily_insights, <<>>))
                IN  /\ call' = [op |-> "ingest", repositories |-> repositories,
                                 fetched |-> fetched, llm |-> enhance_insight(env),
                                 env |-> env]
                    /\ result' = IF out.raised THEN [status |-> 500]
                                  ELSE [status |-> 200, results |-> out.results]
                    /\ dora_metrics' = out.dora
                    /\ daily_insights' = out.insights
    /\ ncalls' = ncalls + 1
    /\ UNCHANGED business_metrics

\* run_daily_ingestion with a list of Lists: the loop of ingest, without the
\* check of the names and without enhance_insight
RunDailyIngestion(Lists, Answers, cap) ==
    /\ ncalls < cap
    /\ \E repositories \in Lists :
        \E fetched \in [Range(repositories) -> Answers] :
            LET out == IngestLoop(repositories, 1, fetched, LlmNone,
                                  LoopState(FALSE, dora_metrics, daily_insights, <<>>))
            IN  /\ call' = [op |-> "run_daily_ingestion", repositories |-> repositories,
                             fetched |-> fetched, llm |-> LlmNone]
                /\ result' = [raised |-> out.raised]
                /\ dora_metrics' = out.dora
                /\ daily_insights' = out.insights
    /\ ncalls' = ncalls + 1
    /\ UNCHANGED business_metrics

\* the batches of the aggregation runs
DoraBatches == BoundedSeq(DoraPRs, MaxBatch)

AggregateBatch == ComputeDora(DoraBatches)

NextDora == AggregateBatch

SpecDora == Init /\ [][NextDora]_vars

\* the batches of the classification runs
ClassifyBatches == BoundedSeq(ClassifyPRs, MaxBatch)

ClassifyBatch == ComputeDora(ClassifyBatches)

NextFailure == ClassifyBatch

SpecFailure == Init /\ [][NextFailure]_vars

\* the answers of the ingestion runs
FlowAnswers == McpAnswers(FlowPRs)

\* the batches of the runs that compare the orders of a batch
OrderBatches == BoundedSeq(OrderPRs, MaxOrderBatch)

ReorderedBatch == ComputeDora(OrderBatches)

NextOrder == ReorderedBatch

SpecOrder == Init /\ [][NextOrder]_vars

\* three environments of llm.py: no key, a text answered, an empty text
FlowEnvs ==
    {LlmEnv(FALSE, TRUE, "text"), LlmEnv(TRUE, TRUE, "text"), LlmEnv(TRUE, TRUE, "empty")}

IngestRequest == Ingest(RepoLists, FlowAnswers, FlowEnvs, MaxRequests)

DailyJob == RunDailyIngestion(OneRepo, FlowAnswers, MaxRequests)

Next == IngestRequest \/ DailyJob

Spec == Init /\ [][Next]_vars

\* the answers of the repeated ingests
UpsertAnswers == McpAnswers(UpsertPRs)

RepeatedIngest ==
    Ingest({<<repo_a>>, <<repo_b>>}, UpsertAnswers, {LlmEnv(FALSE, TRUE, "text")}, MaxIngests)

NextUpsert == RepeatedIngest

SpecUpsert == Init /\ [][NextUpsert]_vars

\* every environment of llm.py
LlmEnvs ==
    {LlmEnv(api_key, openai, completion) :
        api_key \in BOOLEAN, openai \in BOOLEAN,
        completion \in {"raises", "text", "empty", "none"}}

\* the answers of the MCP server over a merged and an unmerged record
EnhanceAnswers == McpAnswers({pr_merged, pr_unmerged})

\* one POST /ingest for one repository or two, in any environment of llm.py
EnhancedIngest == Ingest({<<repo_a>>, <<repo_a, repo_b>>}, EnhanceAnswers, LlmEnvs, 1)

NextEnhance == EnhancedIngest

SpecEnhance == Init /\ [][NextEnhance]_vars

\* one call of get_dora_performance_level on a snapshot
ClassifyLevels ==
    /\ ncalls = 0
    /\ \E metrics \in Snapshots :
        /\ call' = [op |-> "get_dora_performance_level", metrics |-> metrics]
        /\ result' = get_dora_performance_level(metrics)
    /\ ncalls' = ncalls + 1
    /\ UNCHANGED <<dora_metrics, daily_insights, business_metrics>>

NextLevels == ClassifyLevels

SpecLevels == Init /\ [][NextLevels]_vars

\* a call of calculate_correlation waits with its two series
InitCorrelation ==
    /\ dora_metrics = <<>>
    /\ daily_insights = <<>>
    /\ business_metrics = <<>>
    /\ \E p \in SeriesPairs :
        call = [op |-> "pending", x_values |-> p[1], y_values |-> p[2]]
    /\ result = NoCall
    /\ ncalls = 0

\* the call of calculate_correlation
Correlate ==
    /\ call.op = "pending"
    /\ call' = [call EXCEPT !.op = "calculate_correlation"]
    /\ result' = [value |-> calculate_correlation(call.x_values, call.y_values)]
    /\ ncalls' = ncalls + 1
    /\ UNCHANGED <<dora_metrics, daily_insights, business_metrics>>

NextCorrelation == Correlate

SpecCorrelation == InitCorrelation /\ [][NextCorrelation]_vars

\* one call of compute_correlations on the stored histories
ComputeCorrelations ==
    /\ ncalls = 0
    /\ \E dora_by_date \in DoraHistories, business_by_date \in BusinessHistories :
        /\ call' = [op |-> "compute_correlations", dora_by_date |-> dora_by_date,
                    business_by_date |-> business_by_date]
        /\ result' = compute_correlations(dora_by_date, business_by_date)
    /\ ncalls' = ncalls + 1
    /\ UNCHANGED <<dora_metrics, daily_insights, business_metrics>>

NextHistories == ComputeCorrelations

SpecHistories == Init /\ [][NextHistories]_vars

\* a call of calculate_business_impact, or a request to POST /business/impact,
\* is about to be made
InitImpact ==
    /\ dora_metrics = <<>>
    /\ daily_insights = <<>>
    /\ business_metrics = <<>>
    /\ \E dora_before \in ImpactSnapshots, dora_after \in ImpactSnapshots :
        \/ \E business_context \in BusinessContexts :
            call = [op |-> "pending", dora_before |-> dora_before,
                    dora_after |-> dora_after, business_context |-> business_context]
        \/ \E options \in ImpactOptions :
            call = [op |-> "request", dora_before |-> dora_before,
                    dora_after |-> dora_after, options |-> options]
    /\ result = NoCall
    /\ ncalls = 0

\* the call of calculate_business_impact
EstimateImpact ==
    /\ call.op = "pending"
    /\ call' = [call EXCEPT !.op = "calculate_business_impact"]
    /\ result' = calculate_business_impact(call.dora_before, call.dora_after,
                                           call.business_context)
    /\ ncalls' = ncalls + 1
    /\ UNCHANGED <<dora_metrics, daily_insights, business_metrics>>

\* the request to POST /business/impact
PostImpact ==
    /\ call.op = "request"
    /\ call' = [call EXCEPT !.op = "calculate_impact"]
    /\ result' = calculate_impact([dora_before |-> call.dora_before,
                                   dora_after |-> call.dora_after,
                                   annual_revenue |-> call.options.annual_revenue,
                                   avg_incident_cost |-> call.options.avg_incident_cost,
                                   engineer_hourly_rate |-> call.options.engineer_hourly_rate,
                                   team_size |-> call.options.team_size])
    /\ ncalls' = ncalls + 1
    /\ UNCHANGED <<dora_metrics, daily_insights, business_metrics>>

NextImpact == EstimateImpact \/ PostImpact

SpecImpact == InitImpact /\ [][NextImpact]_vars

\* a call of generate_insight_summary is about to be made, with the metrics
\* that compute_dora_from_prs gives for the batch and a target day that the
\* metrics hold or lack
InitInsight ==
    /\ dora_metrics = <<>>
    /\ daily_insights = <<>>
    /\ business_metrics = <<>>
    /\ \E batch \in InsightBatches, target_day \in {1, 2} :
        call = [op |-> "pending", repo |-> repo_a, prs |-> batch,
                metrics_per_day |-> compute_dora_from_prs(batch).value,
                target_day |-> target_day]
    /\ result = NoCall
    /\ ncalls = 0

\* the call of generate_insight_summary
Summarise ==
    /\ call.op = "pending"
    /\ call' = [call EXCEPT !.op = "generate_insight_summary"]
    /\ result' = generate_insight_summary(call.repo, call.metrics_per_day, call.prs,
                                          call.target_day)
    /\ ncalls' = ncalls + 1
    /\ UNCHANGED <<dora_metrics, daily_insights, business_metrics>>

NextInsight == Summarise

SpecInsight == InitInsight /\ [][NextInsight]_vars

\* the day of a request, and the numbers given for range_days,
\* lookback_days and limit
Todays == {2, 40}
RangeDays == {0, 30, 181}

\* the questions put to chat
msg_show_prs == <<"s", "h", "o", "w", " ", "p", "r", "s">>
msg_show_commits == <<"S", "h", "o", "w", " ", "C", "o", "m", "m", "i", "t", "s">>
msg_hello == <<"h", "e", "l", "l", "o">>
msg_what_is_dora == <<"W", "h", "a", "t", " ", "i", "s", " ", "D", "O", "R", "A">>
msg_explain_deployed == <<"e", "x", "p", "l", "a", "i", "n", " ", "w", "h", "o", " ", "d", "e", "p", "l", "o", "y", "e", "d">>
ChatMessages ==
    {msg_show_prs, msg_show_commits, msg_hello, msg_what_is_dora, msg_explain_deployed}

\* the requests of chat
ChatRequests ==
    {[repo |-> repo, message |-> message, lookback_days |-> 7] :
        repo \in RepoNames, message \in ChatMessages}

\* the answers of the MCP server to list_pull_requests and to list_commits:
\* a failed request, or a list of records
PullRequestAnswers == {McpFailure} \cup {McpList(b) : b \in BoundedSeq({pr_merged}, MaxFetch)}
CommitAnswers ==
    {McpFailure}
    \cup {McpList(b) : b \in BoundedSeq({Commit(User("alice"), ""), Commit(Null, "bob")}, MaxFetch)}

\* the tables an ingest of repo_a leaves whose one pull request was merged
\* on day 1
IngestedTables ==
    IngestLoop(<<repo_a>>, 1, [r \in {repo_a} |-> McpList(<<pr_merged>>)], LlmNone,
               LoopState(FALSE, <<>>, <<>>, <<>>))

\* the tables are empty or hold what an ingest left
InitEndpoints ==
    /\ \E st \in {LoopState(FALSE, <<>>, <<>>, <<>>), IngestedTables} :
        /\ dora_metrics = st.dora
        /\ daily_insights = st.insights
    /\ business_metrics = <<>>
    /\ call = NoCall
    /\ result = NoCall
    /\ ncalls = 0

\* a request c that only reads is answered with answer
Serve(c, answer) ==
    /\ call' = c
    /\ result' = answer
    /\ ncalls' = ncalls + 1
    /\ UNCHANGED <<dora_metrics, daily_insights, business_metrics>>

\* GET /metrics/dora
GetDoraMetrics ==
    /\ ncalls = 0
    /\ \E repo \in RepoNames, range_days \in RangeDays, today \in Todays :
        Serve([op |-> "get_dora_metrics", repo |-> repo, range_days |-> range_days,
               today |-> today],
              get_dora_metrics(repo, range_days, today, dora_metrics))

\* GET /metrics/dora/drilldown
GetDoraDrilldown ==
    /\ ncalls = 0
    /\ \E repo \in RepoNames, date \in 1..2, prs \in FlowAnswers :
        Serve([op |-> "get_dora_drilldown", repo |-> repo, date |-> date, fetched |-> prs],
              get_dora_drilldown(repo, date, prs))

\* GET /metrics/contributors
GetContributorRisk ==
    /\ ncalls = 0
    /\ \E repo \in RepoNames, lookback_days \in RangeDays, commits \in CommitAnswers :
        Serve([op |-> "get_contributor_risk", repo |-> repo,
               lookback_days |-> lookback_days, fetched |-> commits],
              get_contributor_risk(repo, lookback_days, commits))

\* GET /insights/daily
GetDailyInsights ==
    /\ ncalls = 0
    /\ \E repo \in RepoNames, limit \in {0, 1, 7, 31} :
        Serve([op |-> "get_daily_insights", repo |-> repo, limit |-> limit],
              get_daily_insights(repo, limit, daily_insights))

\* GET /business/performance-level, for one repository and for all
GetPerformanceLevel ==
    /\ ncalls = 0
    /\ \E range_days \in RangeDays, today \in Todays :
        \/ \E repo \in RepoNames :
            Serve([op |-> "get_performance_level", repo |-> repo,
                   range_days |-> range_days, today |-> today],
                  get_performance_level(Given(repo), range_days, today, dora_metrics))
        \/ Serve([op |-> "get_performance_level", range_days |-> range_days,
                  today |-> today],
                 get_performance_level(NotGiven, range_days, today, dora_metrics))

\* POST /chat
Chat ==
    /\ ncalls = 0
    /\ \E req \in ChatRequests, prs \in PullRequestAnswers, commits \in CommitAnswers,
          env \in {LlmEnv(FALSE, TRUE, "text"), LlmEnv(TRUE, TRUE, "raises"),
                   LlmEnv(TRUE, TRUE, "text")},
          today \in Todays :
        Serve([op |-> "chat", repo |-> req.repo, req |-> req,
               mcp |-> [pull_requests |-> prs, commits |-> commits],
               env |-> env, today |-> today],
              chat(req, [pull_requests |-> prs, commits |-> commits], env, today,
                   dora_metrics, daily_insights))

\* POST /ingest, once
IngestOnce ==
    Ingest(RepoLists, {McpFailure, McpList(<<pr_merged>>)}, {LlmEnv(FALSE, TRUE, "text")}, 1)

NextEndpoints ==
    \/ GetDoraMetrics
    \/ GetDoraDrilldown
    \/ GetContributorRisk
    \/ GetDailyInsights
    \/ GetPerformanceLevel
    \/ Chat
    \/ IngestOnce

SpecEndpoints == InitEndpoints /\ [][NextEndpoints]_vars

\* POST /business/metrics
PostBusinessMetrics ==
    /\ ncalls < MaxWrites
    /\ \E key \in BusinessKeys, fields \in BusinessFields :
        /\ call' = [op |-> "post_business_metrics", org_id |-> key[1], date |-> key[2],
                     metrics |-> model_dump(fields)]
        /\ business_metrics' =
               upsert_business_metrics(business_metrics, key[1], key[2], model_dump(fields))
        /\ result' = [status |-> 200, org_id |-> key[1], date |-> key[2]]
    /\ ncalls' = ncalls + 1
    /\ UNCHANGED <<dora_metrics, daily_insights>>

\* upsert_business_metrics called with a dict of the fields at hand
UpsertBusinessMetrics ==
    /\ ncalls < MaxWrites
    /\ \E key \in BusinessKeys, fields \in BusinessFields :
        /\ call' = [op |-> "upsert_business_metrics", org_id |-> key[1], date |-> key[2],
                     metrics |-> fields]
        /\ business_metrics' =
               upsert_business_metrics(business_metrics, key[1], key[2], fields)
        /\ result' = NoneValue
    /\ ncalls' = ncalls + 1
    /\ UNCHANGED <<dora_metrics, daily_insights>>

NextBusiness == PostBusinessMetrics \/ UpsertBusinessMetrics

SpecBusiness == Init /\ [][NextBusiness]_vars

---------------------------------------------------------------------------
(* What the claims speak of, stated on the raw records *)

\* the call of compute_dora_from_prs was made / returned a mapping
Called == call.op = "compute_dora_from_prs"
Returned == Called /\ ~result.raised

\* a string that is an ISO-8601 timestamp: a date, a time, and no offset,
\* Z, or a numeric offset
IsIsoTimestamp(v) ==
    /\ v.k = "text"
    /\ v.date > 0
    /\ v.time >= 0
    /\ v.tz \in {"", "Z", "+00:00", "+02:00", "-02:00"}

BothParse(pr) == IsIsoTimestamp(pr.created_at) /\ IsIsoTimestamp(pr.merged_at)

\* minutes east of UTC that an ISO timestamp states (none stated: 0)
StatedOffset(v) ==
    CASE v.tz = "+02:00" -> 120
      [] v.tz = "-02:00" -> -120
      [] OTHER -> 0

\* the instant an ISO timestamp denotes, in seconds since day 0, 00:00 UTC
InstantOf(v) == v.date * SecondsPerDay + v.time - 60 * StatedOffset(v)

\* merged_at - created_at in seconds
LeadOf(pr) == InstantOf(pr.merged_at) - InstantOf(pr.created_at)

\* the calendar date merged_at is written with
MergedDay(pr) == pr.merged_at.date

\* the calendar date of the merged_at instant in UTC
MergedDayUtc(pr) == InstantOf(pr.merged_at) \div SecondsPerDay

\* the positions of the batch whose records parse and were merged on day d
EventsOn(batch, d) ==
    {i \in DOMAIN batch : BothParse(batch[i]) /\ MergedDay(batch[i]) = d}

FailuresOn(batch, d) == {i \in EventsOn(batch, d) : is_failure(batch[i])}

RECURSIVE SumLeads(_, _)
SumLeads(batch, S) ==
    IF S = {} THEN 0
    ELSE LET i == CHOOSE j \in S : TRUE
         IN  LeadOf(batch[i]) + SumLeads(batch, S \ {i})

\* the float x is a whole number / the whole number it is
IsWhole(x) == x.e >= 0
WholeOf(x) == x.m * Pow2(x.e)

RECURSIVE SumFrequencies(_, _)
SumFrequencies(m, S) ==
    IF S = {} THEN 0
    ELSE LET d == CHOOSE e \in S : TRUE
         IN  WholeOf(m[d].deployment_frequency) + SumFrequencies(m, S \ {d})

---------------------------------------------------------------------------
(* Claims about compute_dora_from_prs, under SpecDora *)

C3_DailyValues ==
    Returned =>
        \A d \in DOMAIN result.value :
            LET m == result.value[d]
                E == EventsOn(call.prs, d)
                F == FailuresOn(call.prs, d)
                n == Cardinality(E)
                k == Cardinality(F)
            IN  /\ n >= 1
                /\ m.deployment_frequency = Frac(n, 1)
                /\ m.avg_lead_time_minutes = Frac(SumLeads(call.prs, E), 60 * n)
                /\ m.change_failure_rate = Frac(k, n)
                /\ FracLeq(Frac(0, 1), m.change_failure_rate)
                /\ FracLeq(m.change_failure_rate, Frac(1, 1))
                /\ IF k = 0 THEN m.mttr_minutes = Frac(0, 1)
                   ELSE m.mttr_minutes = Frac(SumLeads(call.prs, F), 60 * k)

\* two events on one day with different lead times, one of them a failure
C3_Witness ==
    /\ Returned
    /\ \E d \in DOMAIN result.value :
        /\ result.value[d].deployment_frequency = Frac(2, 1)
        /\ result.value[d].change_failure_rate = Frac(1, 2)
        /\ result.value[d].mttr_minutes # result.value[d].avg_lead_time_minutes
        /\ result.value[d].mttr_minutes # Frac(0, 1)

\* C4 as stated: for every batch and every day of the result,
\* avg_lead_time_minutes >= 0 and mttr_minutes >= 0, whatever the order of
\* created_at and merged_at.
C4_LeadTimesNonNegative ==
    Returned =>
        \A d \in DOMAIN result.value :
            /\ FracLeq(Frac(0, 1), result.value[d].avg_lead_time_minutes)
            /\ FracLeq(Frac(0, 1), result.value[d].mttr_minutes)

\* C5 as stated: compute_dora_from_prs never raises, whatever created_at and
\* merged_at hold in the records of the batch.
C5_NeverRaises == Called => ~result.raised

\* C6 as stated: the days of the result are the UTC calendar dates of the
\* merged_at instants of the parseable records, so two records merged at the
\* same instant are counted under the same day.
C6_GroupedByUtcDate ==
    Returned =>
        /\ DOMAIN result.value
             = {MergedDayUtc(call.prs[i]) :
                    i \in {j \in DOMAIN call.prs : BothParse(call.prs[j])}}
        /\ \A i, j \in DOMAIN call.prs :
             (/\ i # j
              /\ BothParse(call.prs[i]) /\ BothParse(call.prs[j])
              /\ call.prs[i].merged_at.tz # "" /\ call.prs[j].merged_at.tz # ""
              /\ InstantOf(call.prs[i].merged_at) = InstantOf(call.prs[j].merged_at))
             => \E d \in DOMAIN result.value :
                    WholeOf(result.value[d].deployment_frequency) >= 2

---------------------------------------------------------------------------
(* Claim about the failure classification, under SpecFailure *)

\* the failure rule of the claim, on the raw title and label names
ClaimFailure(pr) ==
    \/ Contains(Lower(pr.title), <<"r", "e", "v", "e", "r", "t">>)
    \/ Contains(Lower(pr.title), <<"r", "o", "l", "l", "b", "a", "c", "k">>)
    \/ \E i \in DOMAIN pr.labels :
        Lower(pr.labels[i]) \in {<<"b", "u", "g">>, <<"i", "n", "c", "i", "d", "e", "n", "t">>,
                                 <<"r", "e", "v", "e", "r", "t">>,
                                 <<"r", "o", "l", "l", "b", "a", "c", "k">>}

---------------------------------------------------------------------------
(* Claims about the ingest flow, under Spec *)

\* the last call went through the loop over the repositories
Ingested == call.op \in {"ingest", "run_daily_ingestion"} /\ "fetched" \in DOMAIN call

\* the last call ended without an exception: ingest answered 200,
\* run_daily_ingestion returned
Completed ==
    IF call.op = "ingest" THEN result.status = 200 ELSE ~result.raised

\* the pull requests and the DailyMetrics of repository r in call c
BatchOf(c, r) == PrsOf(_post_json(c.fetched[r]))
MetricsOf(c, r) == compute_dora_from_prs(BatchOf(c, r)).value

\* a batch with a record closed without merging and a validly merged one
HasUnmerged(batch) == \E i \in DOMAIN batch : batch[i].merged_at.k \in {"absent", "null"}
HasMerged(batch) == \E i \in DOMAIN batch : BothParse(batch[i])

\* C8 as stated: an ingest of a batch in which some records have merged_at
\* absent or null and at least one record is validly merged completes
\* normally, and the DORA metrics and the insight of the latest day are
\* stored.
C8_UnmergedRecordsNotFatal ==
    Ingested =>
        \A r \in DOMAIN call.fetched :
            (HasUnmerged(BatchOf(call, r)) /\ HasMerged(BatchOf(call, r))) =>
                /\ Completed
                /\ \A d \in DOMAIN MetricsOf(call, r) : <<r, d>> \in DOMAIN dora_metrics
                /\ <<r, LatestDay(MetricsOf(call, r))>> \in DOMAIN daily_insights

RECURSIVE SumCounts(_)
SumCounts(top_contrib) ==
    IF top_contrib = <<>> THEN 0
    ELSE Head(top_contrib).pr_count + SumCounts(Tail(top_contrib))

\* C9 as stated: a record whose created_at or merged_at is unparseable is
\* counted neither in the day's DailyMetrics nor in the contributor tally, so
\* after a completed ingest the pr_count total of the stored insight never
\* exceeds the deployment_frequency stored for that day.
C9_TallyWithinFrequency ==
    (Ingested /\ Completed) =>
        \A r \in DOMAIN call.fetched :
            MetricsOf(call, r) # <<>> =>
                SumCounts(daily_insights[<<r, LatestDay(MetricsOf(call, r))>>].top_contributors)
                    <= IntOf(dora_metrics[<<r, LatestDay(MetricsOf(call, r))>>].deployment_frequency)

---------------------------------------------------------------------------
(* Claim about repeated ingests, under SpecUpsert *)

\* the keys (repo, date) that call c computes DailyMetrics for
WrittenBy(c) ==
    UNION {{<<r, d>> : d \in DOMAIN MetricsOf(c, r)} : r \in DOMAIN c.fetched}

\* C10: every completed ingest leaves, for each (repo, date) of its batch,
\* the DailyMetrics it computed as the stored row, and every other row as it
\* was, so a row is that of the most recent ingest whose batch had the date;
\* and an ingest that repeats the one before it leaves dora_metrics as it was.
C10_LastIngestWins ==
    /\ [][(ncalls' # ncalls /\ call'.op = "ingest" /\ result'.status = 200) =>
            /\ DOMAIN dora_metrics' = DOMAIN dora_metrics \cup WrittenBy(call')
            /\ \A k \in WrittenBy(call') : dora_metrics'[k] = MetricsOf(call', k[1])[k[2]]
            /\ \A k \in DOMAIN dora_metrics \ WrittenBy(call') :
                    dora_metrics'[k] = dora_metrics[k]]_vars
    /\ [][(/\ ncalls' # ncalls
            /\ call.op = "ingest" /\ result.status = 200
            /\ call'.op = "ingest"
            /\ call'.repositories = call.repositories
            /\ call'.fetched = call.fetched) =>
            dora_metrics' = dora_metrics]_vars

\* a second ingest for o/r whose batch is two merges of day 2, after one
\* whose batch had day 1 and day 2 (it stored a row for day 1 and no insight
\* for it): the row of day 2 went from one deployment to two
C10_Witness ==
    /\ call.op = "ingest" /\ result.status = 200
    /\ ncalls = 2
    /\ call.repositories = <<repo_a>>
    /\ BatchOf(call, repo_a) = <<pr_merged_later, pr_merged_later>>
    /\ <<repo_a, 1>> \in DOMAIN dora_metrics
    /\ <<repo_a, 1>> \notin DOMAIN daily_insights
    /\ dora_metrics[<<repo_a, 2>>].deployment_frequency = Frac(2, 1)

---------------------------------------------------------------------------
(* Claim about the order of the batch, under SpecOrder *)

\* the batch in the order p, a permutation of its positions
Reordered(batch, p) == [i \in DOMAIN batch |-> batch[p[i]]]

\* C11 as stated: compute_dora_from_prs yields for every permutation of the
\* batch the same days with the same four values per day.
C11_OrderIndependent ==
    Returned =>
        \A p \in Permutations(DOMAIN call.prs) :
            compute_dora_from_prs(Reordered(call.prs, p)) = result

---------------------------------------------------------------------------
(* Claims about the performance levels, under SpecLevels *)

\* the call of get_dora_performance_level was made
Classified == call.op = "get_dora_performance_level"

\* the float v reaches the float t / stays within it
Reaches(v, t) == FracLeq(t, v)
Within(v, t) == FracLeq(v, t)

\* the threshold table: per metric the bounds of Elite, High and Medium
TierNames == <<"Elite", "High", "Medium">>
FrequencyBounds == <<Frac(1, 1), Frac(14, 100), Frac(33, 1000)>>
MinuteBounds == <<Frac(60, 1), Frac(1440, 1), Frac(10080, 1)>>
RateBounds == <<Frac(15, 100), Frac(30, 100), Frac(45, 100)>>

\* the first tier of the table among the rows in S, Low if S is empty
FirstTier(S) ==
    IF S = {} THEN "Low"
    ELSE TierNames[CHOOSE i \in S : \A j \in S : i <= j]

Ordinal(tier) ==
    CASE tier = "Low" -> 0 [] tier = "Medium" -> 1 [] tier = "High" -> 2 [] tier = "Elite" -> 3

\* the ordinals of the four per-metric tiers of the result
MetricOrdinals ==
    <<Ordinal(result.deployment_frequency), Ordinal(result.lead_time),
      Ordinal(result.change_failure_rate), Ordinal(result.mttr)>>

OrdinalSum == MetricOrdinals[1] + MetricOrdinals[2] + MetricOrdinals[3] + MetricOrdinals[4]

RaisedAt(i, tier) ==
    [<<result.deployment_frequency, result.lead_time,
       result.change_failure_rate, result.mttr>> EXCEPT ![i] = tier]

---------------------------------------------------------------------------
(* Claims about calculate_correlation, under SpecCorrelation *)

\* the call of calculate_correlation was made
Correlated == call.op = "calculate_correlation"

\* C14: calculate_correlation(x, y) equals calculate_correlation(y, x) for
\* all series x and y, series with missing values and series of unequal
\* length among them; both are None in the same cases.
C14_Symmetric ==
    Correlated =>
        calculate_correlation(call.y_values, call.x_values) = result.value

\* two series of four that differ, with a missing value in the first: three
\* pairs remain and the coefficient is a number
C14_Witness ==
    /\ Correlated
    /\ call.x_values = <<Frac(9, 10), NoneValue, Zero, Frac(1, 1)>>
    /\ call.y_values = <<Zero, Zero, Frac(1, 1), Frac(1, 1)>>
    /\ result.value # NoneValue
    /\ result.value # Zero

\* the positions at which neither series of the call has a missing value,
\* for two series of one length
Remaining == {i \in DOMAIN call.x_values :
                 call.x_values[i] # NoneValue /\ call.y_values[i] # NoneValue}

\* the series s takes one value only at the positions R
ConstantOn(s, R) == \A i, j \in R : s[i] = s[j]

\* C15 as stated: calculate_correlation(x, x) is 1 for every series x that is
\* not constant and has 3 or more values that are not missing, and every
\* coefficient that is defined lies in [-1, 1].
C15_SelfIsOneAndBounded ==
    Correlated =>
        /\ (/\ call.x_values = call.y_values
            /\ Cardinality(Remaining) >= 3
            /\ ~ConstantOn(call.x_values, Remaining))
           => result.value = Frac(1, 1)
        /\ result.value # NoneValue =>
            /\ FracLeq(Frac(-1, 1), result.value)
            /\ FracLeq(result.value, Frac(1, 1))

\* C16 as stated: calculate_correlation returns None exactly when the series
\* differ in length, or fewer than 3 pairs remain once the pairs with a
\* missing value are dropped, or one of the remaining series is constant;
\* otherwise it returns the number that the remaining pairs alone yield.
C16_NoneExactlyWhen ==
    Correlated =>
        IF Len(call.x_values) # Len(call.y_values) THEN result.value = NoneValue
        ELSE /\ result.value = NoneValue <=>
                    \/ Cardinality(Remaining) < 3
                    \/ ConstantOn(call.x_values, Remaining)
                    \/ ConstantOn(call.y_values, Remaining)
             /\ LET kept == SelectSeq([i \in DOMAIN call.x_values |-> i],
                                      LAMBDA i : i \in Remaining)
                IN  result.value =
                        calculate_correlation([j \in DOMAIN kept |-> call.x_values[kept[j]]],
                                              [j \in DOMAIN kept |-> call.y_values[kept[j]]])

---------------------------------------------------------------------------
(* Claims about compute_correlations, under SpecHistories *)

\* the call of compute_correlations was made
Computed == call.op = "compute_correlations"

\* the dates that both stored series of the call hold
CommonDates == DOMAIN call.dora_by_date \cap DOMAIN call.business_by_date

\* the k-th of the common dates in ascending order: k - 1 of them are earlier
DateAt(k) == CHOOSE d \in CommonDates : Cardinality({e \in CommonDates : e < d}) = k - 1

\* the values of one field of a stored series on the common dates, ascending
AlignedSeries(by_date, field) ==
    [k \in 1..Cardinality(CommonDates) |-> by_date[DateAt(k)][field]]

\* the eight named pairs: the DORA field and the business field of each
PairFields ==
    [df_revenue |-> <<"deployment_frequency", "revenue">>,
     df_satisfaction |-> <<"deployment_frequency", "customer_satisfaction_score">>,
     leadtime_revenue |-> <<"avg_lead_time_minutes", "revenue">>,
     leadtime_satisfaction |-> <<"avg_lead_time_minutes", "customer_satisfaction_score">>,
     cfr_incidents |-> <<"change_failure_rate", "incidents">>,
     cfr_churn |-> <<"change_failure_rate", "customer_churn_rate">>,
     mttr_satisfaction |-> <<"mttr_minutes", "customer_satisfaction_score">>,
     mttr_uptime |-> <<"mttr_minutes", "uptime_percentage">>]

\* C17: with fewer than 7 dates present in both stored series the status is
\* "insufficient_data", the correlations map is empty and there is no
\* insight; with 7 or more the status is "success", the period runs from the
\* first to the last common date, and every coefficient is that of the two
\* series taken on exactly the common dates, ascending and paired by date.
C17_CommonDatesOnly ==
    Computed =>
        IF Cardinality(CommonDates) < 7
        THEN /\ result.status = "insufficient_data"
             /\ DOMAIN result.correlations = {}
             /\ result.insights = <<>>
        ELSE /\ result.status = "success"
             /\ result.period = [start |-> DateAt(1),
                                 end |-> DateAt(Cardinality(CommonDates)),
                                 days |-> Cardinality(CommonDates)]
             /\ \A pair \in DOMAIN result.correlations :
                    result.correlations[pair] =
                        calculate_correlation(
                            AlignedSeries(call.dora_by_date, PairFields[pair][1]),
                            AlignedSeries(call.business_by_date, PairFields[pair][2]))

\* the DORA history lacks day 1 and the business history day MaxDays, both
\* hold the 7 days between: the period runs from day 2 to day MaxDays - 1
C17_Witness ==
    /\ Computed
    /\ 1 \notin DOMAIN call.dora_by_date /\ 1 \in DOMAIN call.business_by_date
    /\ MaxDays \in DOMAIN call.dora_by_date /\ MaxDays \notin DOMAIN call.business_by_date
    /\ Cardinality(CommonDates) = 7
    /\ result.status = "success"
    /\ result.period = [start |-> 2, end |-> MaxDays - 1, days |-> 7]
    /\ result.correlations.df_revenue # NoneValue

\* the pairs that can trigger an insight, with its type and recommendation
InsightTable ==
    [df_revenue |-> <<"positive", "Continue investing in deployment automation to drive revenue growth">>,
     cfr_incidents |-> <<"warning", "Improve testing and code review processes to reduce production incidents">>,
     mttr_satisfaction |-> <<"positive", "Invest in observability and incident response automation">>,
     leadtime_satisfaction |-> <<"positive", "Focus on reducing cycle time through smaller batches and automation">>]

\* the coefficient r is defined and |r| > 0.3
Material(r) ==
    /\ r # NoneValue
    /\ r # Zero
    /\ ~FracLeq(IF r.m < 0 THEN Neg(r) ELSE r, Frac(3, 10))

\* C18: on success the correlations map holds exactly the eight named pairs;
\* every insight belongs to a pair whose coefficient is defined and beyond
\* +-0.3, is tagged "positive" or "warning", and carries the recommendation
\* fixed for that pair; no pair yields more than one insight.
C18_InsightsOnlyBeyondThreshold ==
    (Computed /\ result.status = "success") =>
        /\ DOMAIN result.correlations = DOMAIN PairFields
        /\ \A i \in DOMAIN result.insights :
            /\ result.insights[i].type \in {"positive", "warning"}
            /\ \E pair \in DOMAIN InsightTable :
                /\ Material(result.correlations[pair])
                /\ result.insights[i].type = InsightTable[pair][1]
                /\ result.insights[i].recommendation = InsightTable[pair][2]
        /\ \A i, j \in DOMAIN result.insights :
            result.insights[i].recommendation = result.insights[j].recommendation => i = j

\* a success with a coefficient that is undefined (a constant series), one
\* that is positive and within the threshold, and two insights
C18_Witness ==
    /\ Computed
    /\ result.status = "success"
    /\ result.correlations.cfr_incidents = NoneValue
    /\ result.correlations.df_revenue # NoneValue
    /\ result.correlations.df_revenue.m > 0
    /\ ~Material(result.correlations.df_revenue)
    /\ Len(result.insights) = 2

---------------------------------------------------------------------------
(* Claims about calculate_business_impact, under SpecImpact *)

\* the call of calculate_business_impact was made
Estimated == call.op = "calculate_business_impact"

\* the key of the snapshots that each name of the impact list stands for
MetricKeys ==
    ("Deployment Frequency" :> "deployment_frequency")
    @@ ("Lead Time" :> "avg_lead_time_minutes")
    @@ ("Change Failure Rate" :> "change_failure_rate")
    @@ ("Mean Time to Recovery" :> "mttr_minutes")

\* the value of a metric in the snapshots of the call; an absent one counts 0
BeforeOf(key) == DictGet(call.dora_before, key, Zero)

AfterOf(key) == DictGet(call.dora_after, key, Zero)

\* the metric moved in its good direction: the frequency up, the others down
StrictlyImproved(key) ==
    IF key = "deployment_frequency"
    THEN ~FracLeq(AfterOf(key), BeforeOf(key))
    ELSE ~FracLeq(BeforeOf(key), AfterOf(key))

\* the names in the impact list of an outcome
NamesListed(outcome) == {outcome.impacts[i].metric : i \in DOMAIN outcome.impacts}

\* a snapshot cut down to one key
Only(snapshot, key) == [k \in DOMAIN snapshot \cap {key} |-> snapshot[k]]

\* the outcome of the call that is given one metric alone and no context
Alone(key) ==
    calculate_business_impact(Only(call.dora_before, key), Only(call.dora_after, key),
                              NoneValue)

\* C19: every listed metric strictly improved (deployment frequency after >
\* before; lead time, change failure rate and recovery time after < before);
\* a metric is listed exactly when it is listed by the call that is given
\* that metric's before and after values and nothing else; and when after
\* equals before for every metric the list is empty and the total is 0.
C19_ListedOnlyIfImproved ==
    Estimated =>
        /\ \A name \in NamesListed(result) : StrictlyImproved(MetricKeys[name])
        /\ \A name \in DOMAIN MetricKeys :
            name \in NamesListed(result) <=> name \in NamesListed(Alone(MetricKeys[name]))
        /\ (\A name \in DOMAIN MetricKeys :
                BeforeOf(MetricKeys[name]) = AfterOf(MetricKeys[name]))
            => /\ result.impacts = <<>>
               /\ result.total_annual_savings = Zero

\* the frequency and the failure rate improved and are listed; the lead time
\* grew and the recovery time stayed as it was, and neither is listed
C19_Witness ==
    /\ Estimated
    /\ NamesListed(result) = {"Deployment Frequency", "Change Failure Rate"}
    /\ ~FracLeq(AfterOf("avg_lead_time_minutes"), BeforeOf("avg_lead_time_minutes"))
    /\ BeforeOf("mttr_minutes").m > 0
    /\ AfterOf("mttr_minutes") = BeforeOf("mttr_minutes")

\* no metric value of the call and no value of its business context is negative
NonNegativeCall ==
    /\ \A key \in DOMAIN call.dora_before : call.dora_before[key].m >= 0
    /\ \A key \in DOMAIN call.dora_after : call.dora_after[key].m >= 0
    /\ call.business_context # NoneValue =>
        \A key \in DOMAIN call.business_context \ {"team_size"} :
            call.business_context[key].m >= 0

\* the estimated values of the impact list, in the order of the list
EstimatedValues == [i \in DOMAIN result.impacts |-> result.impacts[i].estimated_value]

\* C20: when no metric value and no context value is negative, every
\* estimated_value of the impact list is >= 0, and total_annual_savings is
\* the sum of the estimated values of the list, taken in the order of the
\* list, and is not negative.
C20_NonNegativeAndSummed ==
    (Estimated /\ NonNegativeCall) =>
        /\ \A i \in DOMAIN result.impacts : result.impacts[i].estimated_value.m >= 0
        /\ result.total_annual_savings = SumSeq(EstimatedValues)
        /\ result.total_annual_savings.m >= 0

\* all four metrics are listed with a positive value each, and the total is
\* more than any one of them
C20_Witness ==
    /\ Estimated
    /\ NonNegativeCall
    /\ Len(result.impacts) = 4
    /\ \A i \in DOMAIN result.impacts :
        /\ result.impacts[i].estimated_value.m > 0
        /\ ~FracLeq(result.total_annual_savings, result.impacts[i].estimated_value)

\* the value of a field of the business context of the call, or its default
ContextValue(key, default) ==
    IF call.business_context = NoneValue THEN default
    ELSE DictGet(call.business_context, key, default)

\* the records of the impact list that bear a name
RecordsOf(name) == {i \in DOMAIN result.impacts : result.impacts[i].metric = name}

\* the Deployment Frequency record that the formulas of the claim give
FrequencyRecordAt(i) ==
    LET before == BeforeOf("deployment_frequency")
        after == AfterOf("deployment_frequency")
        pct == FloatMul(FloatDiv(FloatSub(after, before), before), Frac(100, 1))
        value == FloatMul(FloatMul(ContextValue("annual_revenue", Frac(1000000, 1)),
                                   FloatDiv(pct, Frac(10, 1))),
                          Frac(5, 1000))
    IN  /\ result.impacts[i].improvement_pct = pct
        /\ result.impacts[i].estimated_value = value
        /\ ContextValue("annual_revenue", Frac(1000000, 1)).m > 0 => value.m > 0

\* the two snapshots agree on every metric but the deployment frequency
OnlyFrequencyDiffers ==
    \A name \in DOMAIN MetricKeys \ {"Deployment Frequency"} :
        BeforeOf(MetricKeys[name]) = AfterOf(MetricKeys[name])

Posted == call.op = "calculate_impact"

\* the defaults of the four fields of the business context
ContextDefaults ==
    [annual_revenue |-> Frac(1000000, 1), avg_incident_cost |-> Frac(5000, 1),
     engineer_hourly_rate |-> Frac(75, 1), team_size |-> Frac(10, 1)]

\* the caller supplied a value for a field
Supplied(key) ==
    IF Posted THEN call.options[key] # NoneValue
    ELSE call.business_context # NoneValue /\ key \in DOMAIN call.business_context

\* the value the caller supplied for a field
SuppliedValue(key) ==
    IF Posted THEN call.options[key] ELSE call.business_context[key]

\* each field resolved on its own: the supplied value, 0 included, and the
\* default for a field that was not supplied
ResolvedContext ==
    [key \in DOMAIN ContextDefaults |->
        IF Supplied(key) THEN SuppliedValue(key) ELSE ContextDefaults[key]]

\* C22: by either way in, the outcome is the one computed from the context in
\* which every supplied field, a supplied 0 included, has the supplied value
\* and every other field its default (1,000,000 / 5,000 / 75 / 10).
C22_SuppliedValueUsed ==
    (Estimated \/ Posted) =>
        result = calculate_business_impact(call.dora_before, call.dora_after,
                                           ResolvedContext)

\* the business context of the call as a dictionary
ContextOfCall == IF call.business_context = NoneValue THEN <<>> ELSE call.business_context

\* the business context of the call with another team_size and nothing else
\* changed
WithTeamSize(t) ==
    [key \in DOMAIN ContextOfCall \cup {"team_size"} |->
        IF key = "team_size" THEN t ELSE ContextOfCall[key]]

\* the business context of the call without a team_size
WithoutTeamSize ==
    [key \in DOMAIN ContextOfCall \ {"team_size"} |-> ContextOfCall[key]]

\* the impact list and the total of an outcome are those of the call made
SameEstimate(outcome) ==
    /\ outcome.impacts = result.impacts
    /\ outcome.total_annual_savings = result.total_annual_savings

\* C30: the call with the same snapshots and a business context that differs
\* in team_size only (another team size, or none) returns the same impact
\* list and the same total_annual_savings.
C30_TeamSizeIgnored ==
    Estimated =>
        /\ \A t \in {Frac(1, 1), Frac(1000, 1)} :
            SameEstimate(calculate_business_impact(call.dora_before, call.dora_after,
                                                   WithTeamSize(t)))
        /\ SameEstimate(calculate_business_impact(call.dora_before, call.dora_after,
                                                  WithoutTeamSize))

\* a call whose context names a team size and whose lead time record has a
\* positive labour saving
C30_Witness ==
    /\ Estimated
    /\ "team_size" \in DOMAIN ContextOfCall
    /\ \E i \in RecordsOf("Lead Time") : result.impacts[i].estimated_value.m > 0

---------------------------------------------------------------------------
(* Claim about generate_insight_summary, under SpecInsight *)

\* the call of generate_insight_summary was made
Summarised == call.op = "generate_insight_summary"

\* the event count of the target day: its deployment_frequency, 0 for a day
\* that the metrics lack
EventCount ==
    IF call.target_day \in DOMAIN call.metrics_per_day
    THEN IntOf(call.metrics_per_day[call.target_day].deployment_frequency)
    ELSE 0

\* a flag is among the risk flags of the result
Flagged(flag) == \E i \in DOMAIN result.risk_flags : result.risk_flags[i] = flag

\* C23: bus_factor is raised exactly when the single top contributor accounts
\* for at least 80% of the target day's event count (10 * pr_count >= 8 *
\* deployment_frequency), and no_deployments is present exactly when the
\* target day's deployment_frequency is 0 or the day is absent.
C23_BusFactorAtEightyPercent ==
    Summarised =>
        /\ Flagged("bus_factor") <=>
            /\ result.top_contrib # <<>>
            /\ 10 * result.top_contrib[1].pr_count >= 8 * EventCount
        /\ Flagged("no_deployments") <=> EventCount = 0


---------------------------------------------------------------------------
(* Claim about the language model, under SpecEnhance *)

\* no client can be built, or the chat completion raises
Unavailable(env) == ~env.api_key \/ ~env.openai \/ env.completion = "raises"

\* the chat completion answered with a non-empty text
Rewritten(env) == env.api_key /\ env.openai /\ env.completion = "text"

\* what the loop of call c yields on empty tables when enhance_insight
\* returns llm
OutcomeWith(c, llm) ==
    IngestLoop(c.repositories, 1, c.fetched, llm, LoopState(FALSE, <<>>, <<>>, <<>>))

\* the summary_text stored for the latest day of repository r, and the
\* summary generate_insight_summary builds for it
StoredSummary(r) == daily_insights[<<r, LatestDay(MetricsOf(call, r))>>].summary_text
DeterministicSummary(r) ==
    generate_insight_summary(r, MetricsOf(call, r), BatchOf(call, r),
                             LatestDay(MetricsOf(call, r))).summary

\* C24: without an API key or a client, and when the completion raises,
\* enhance_insight returns None; the ingest then ends as it would have
\* ended with a rewritten text, and when it completes the summary stored
\* for the latest day is the deterministic one; the text of the language
\* model is stored exactly when it is non-empty.
C24_LlmFailureNotFatal ==
    (Ingested /\ call.op = "ingest") =>
        /\ Unavailable(call.env) => enhance_insight(call.env) = LlmNone
        /\ Unavailable(call.env) => summarize_chat(call.env) = LlmNone
        /\ (result.status = 500) = OutcomeWith(call, LlmText).raised
        /\ Completed =>
            \A r \in Range(call.repositories) :
                MetricsOf(call, r) # <<>> =>
                    StoredSummary(r) = IF Rewritten(call.env) THEN LlmText
                                       ELSE DeterministicSummary(r)

\* C24 witness: with a key and a client the completion raised, the ingest
\* of two repositories answered 200 and the deterministic summary of the
\* first was stored
C24_Witness ==
    /\ Ingested /\ call.op = "ingest"
    /\ call.env = LlmEnv(TRUE, TRUE, "raises")
    /\ call.repositories = <<repo_a, repo_b>>
    /\ result.status = 200
    /\ <<repo_a, 1>> \in DOMAIN daily_insights
    /\ daily_insights[<<repo_a, 1>>].summary_text.by = "template"


---------------------------------------------------------------------------
(* Claim about a failed MCP request, under SpecEnhance *)

\* the list without its element at position i
Without(list, i) == SubSeq(list, 1, i - 1) \o SubSeq(list, i + 1, Len(list))

\* seq with x put at position i
InsertAt(seq, i, x) == SubSeq(seq, 1, i - 1) \o <<x>> \o SubSeq(seq, i, Len(seq))

\* the rows of table that belong to repository r
RowsOf(table, r) == {k \in DOMAIN table : k[1] = r}

\* C29: when the MCP request of a repository fails, _post_json returns the
\* empty list; the ingest writes no row of dora_metrics or daily_insights
\* for that repository and reports 0 days for it; and the request ends,
\* writes and reports for the other repositories as the same request
\* without the failed repository does.
C29_FailedFetchSkipsRepository ==
    (Ingested /\ call.op = "ingest") =>
        \A i \in DOMAIN call.repositories :
            call.fetched[call.repositories[i]] = McpFailure =>
                LET r == call.repositories[i]
                    rest == OutcomeWith([repositories |-> Without(call.repositories, i),
                                         fetched |-> call.fetched], call.llm)
                IN  /\ _post_json(call.fetched[r]) = McpList(<<>>)
                    /\ RowsOf(dora_metrics, r) = {}
                    /\ RowsOf(daily_insights, r) = {}
                    /\ dora_metrics = rest.dora
                    /\ daily_insights = rest.insights
                    /\ (result.status = 500) = rest.raised
                    /\ Completed =>
                        /\ result.results[i] = [repo |-> r, days |-> 0]
                        /\ result.results = InsertAt(rest.results, i, [repo |-> r, days |-> 0])

\* C29 witness: the request of the first repository failed, and the second
\* repository was ingested: 0 days and no row for the first, one day and
\* its rows for the second
C29_Witness ==
    /\ Ingested /\ call.op = "ingest"
    /\ call.repositories = <<repo_a, repo_b>>
    /\ call.fetched[repo_a] = McpFailure
    /\ result.status = 200
    /\ result.results = <<[repo |-> repo_a, days |-> 0], [repo |-> repo_b, days |-> 1]>>
    /\ DOMAIN dora_metrics = {<<repo_b, 1>>}
    /\ DOMAIN daily_insights = {<<repo_b, 1>>}

---------------------------------------------------------------------------
(* Claims about the endpoints, under SpecEndpoints *)

\* the repositories named by request c
ReposOf(c) ==
    IF "repositories" \in DOMAIN c THEN Range(c.repositories)
    ELSE IF "repo" \in DOMAIN c THEN {c.repo}
    ELSE {}

\* the MCP tools called and the tables read or written while request c
\* was served
Touched(c, r) ==
    IF c.op = "ingest" THEN "fetched" \in DOMAIN c
    ELSE r.accessed # <<>>

\* C26: a request that names a repository without "/" is answered with
\* status 400, and no MCP tool is called and no table is read or written
\* before the answer; for ingest one such name among the repositories is
\* enough.
C26_InvalidRepoRejected ==
    [][(\E r \in ReposOf(call') : ~HasSlash(r)) =>
          /\ result'.status = 400
          /\ ~Touched(call', result')
          /\ UNCHANGED <<dora_metrics, daily_insights, business_metrics>>]_vars

\* the items chat fetched with the tool it selected
FetchedItems(c) ==
    IF ToolOf(Lower(c.req.message)) = "list_commits"
    THEN PrsOf(_post_json(c.mcp.commits))
    ELSE PrsOf(_post_json(c.mcp.pull_requests))

\* no row of dora_metrics is stored for the repository of chat request c
NoStoredMetrics(c) == StoredDates(dora_metrics, c.repo, 0) = {}

\* the last request was a chat that summarize_chat answered with None
ChatWithoutLlm ==
    /\ call.op = "chat"
    /\ HasSlash(call.repo)
    /\ summarize_chat(call.env) = LlmNone

\* C27: when summarize_chat returns None, chat answers 200 with the
\* fallback answer; and when the question selected a GitHub tool and no
\* metrics are stored for the repository, the answer is "Found N PRs" or
\* "Found N commits" for the number N of items fetched, zero included.
C27_FallbackReportsFetched ==
    ChatWithoutLlm =>
        /\ result.status = 200
        /\ "kind" \in DOMAIN result.body.answer
        /\ (ToolOf(Lower(call.req.message)) # "none" /\ NoStoredMetrics(call)) =>
               /\ result.body.answer.kind = "found"
               /\ result.body.answer.count = Len(FetchedItems(call))
               /\ result.body.answer.noun =
                      (IF result.body.tool = "list_commits" THEN "commits" ELSE "PRs")

---------------------------------------------------------------------------
(* Claim about the business metrics, under SpecBusiness *)

\* write c supplies a value for column col
Supplies(c, col) == col \in DOMAIN c.metrics /\ c.metrics[col] # Null

\* what the column holds once the value v supplied for it is stored
StoredAs(col, v) == IF col = "custom_metrics" THEN json_dumps(v) ELSE v

\* C25: a write to (org_id, date) leaves in each column the value it
\* supplies for it, leaves a column it supplies no value for as it was
\* stored, and leaves the rows of the other keys as they were; so after
\* any sequence of writes each column holds the value last supplied.
C25_LastWriteWinsPerField ==
    [][LET key == <<call'.org_id, call'.date>>
       IN  /\ DOMAIN business_metrics' = DOMAIN business_metrics \cup {key}
           /\ \A other \in DOMAIN business_metrics \ {key} :
                  business_metrics'[other] = business_metrics[other]
           /\ \A col \in BusinessColumns :
                  IF Supplies(call', col)
                  THEN business_metrics'[key][col] = StoredAs(col, call'.metrics[col])
                  ELSE key \in DOMAIN business_metrics =>
                           business_metrics'[key][col] = business_metrics[key][col]]_vars

====
